---- MODULE Spec2Model ----
(***************************************************************************)
(* Model of src/wallet/rpcnames.cpp: the wallet RPCs of the commit-reveal  *)
(* name registration protocol (name_new, name_firstupdate, name_update,    *)
(* name_autoregister) and the deferred transaction queue.                   *)
(*                                                                          *)
(* Every RPC handler is one action.  What a handler answers is an operator *)
(* of the state and the arguments (...Result), written in the order of the *)
(* handler's checks; the action is enabled when the answer is not an error *)
(* thrown before the first mutation, and a call that throws there leaves   *)
(* the state as it is.  The ledger (coin set and name database), the       *)
(* unconfirmed pool and the wallet's key pool are external collaborators:  *)
(* their queries are operators over the state, and their own steps (a      *)
(* block confirming a pool transaction, a name expiring, the wallet        *)
(* resubmitting a transaction) are environment actions.                     *)
(***************************************************************************)
EXTENDS Integers, Sequences, FiniteSets, TLC

VARIABLES
  txs,              \* every transaction built so far: txid -> transaction
  wallet,           \* pwallet->mapWallet: txids recorded in the wallet
  pool,             \* the unconfirmed pool: txids in order of admission
  coins,            \* CoinsTip: confirmed unspent outpoints
  nameDB,           \* CoinsTip name index: name -> CNameData
  queue,            \* pwallet->queuedTransactionMap: txid -> queued transaction
  locked,           \* coins locked with pwallet->LockCoin
  nextKey,          \* index of the next key the key pool hands out
  chain,            \* txids confirmed in the active chain
  last,             \* the last RPC call that did something: arguments, response
  calls             \* handlers in progress: thread -> frame (locals, position)

vars == <<txs, wallet, pool, coins, nameDB, queue, locked, nextKey,
          chain, last, calls>>

core == <<txs, wallet, pool, coins, nameDB, queue, locked, nextKey,
          chain>>

(***************************************************************************)
(* Bounds of the model.                                                     *)
(***************************************************************************)
MaxTx == 2          \* transactions the RPCs may build on top of the initial ones

(***************************************************************************)
(* Program constants.                                                       *)
(***************************************************************************)
MAX_NAME_LENGTH == 255
MAX_VALUE_LENGTH_UI == 520
MAX_NAME_PREVOUT_TRIALS == 1000
TWELVE_PLUS_ONE == 13
SEQUENCE_FINAL == -1    \* the default nSequence of a CTxIn, 0xffffffff
INT_MAX == 2147483647   \* 2^31 - 1: half the range of `unsigned`, less one

(***************************************************************************)
(* Data.  Names and values are opaque byte strings; only their size and    *)
(* their identity matter.  "nBIG" and "vBIG" stand for a name and a value  *)
(* one byte over the limit.                                                 *)
(***************************************************************************)
Names == {"d/a", "d/b"}
NameArgs == Names \cup {"nBIG"}
Values == {"v1", "v2"}
NullArg == "<null>"
ValueArgs == {NullArg, "v2", "vBIG"}

NameSize(n) == IF n = "nBIG" THEN MAX_NAME_LENGTH + 1 ELSE Len(n)
ValueSize(v) == IF v = "vBIG" THEN MAX_VALUE_LENGTH_UI + 1 ELSE Len(v)

\* A destination is a key of the wallet or a foreign address.  The
\* "destAddress" option is absent or names a foreign address.
KeyDest(k) == [own |-> TRUE, k |-> k]
ExtDest == [own |-> FALSE, k |-> 0]
NoDestArg == "<none>"
DestArgs == {NoDestArg, "ext"}
Owned(dest) == dest.own

\* COutPoint: <<txid, n>>; the null outpoint has the zero txid.
ZeroTxid == 0
NoOutp == <<0, 0>>

\* Secrets ("rand"): 20 bytes derived from a key and a name, or drawn at random.
NoRand == [kind |-> "none", k |-> 0, n |-> ""]
DerivedRand(key, name) == [kind |-> "hkdf", k |-> key, n |-> name]
RandomRand(id) == [kind |-> "rnd", k |-> id, n |-> ""]
WrongRand == [kind |-> "rnd", k |-> 0, n |-> ""]
LongRand == [kind |-> "long", k |-> 0, n |-> ""]
ShortRand == [kind |-> "short", k |-> 0, n |-> ""]
RandSize(r) ==
  IF r.kind = "long" THEN 21 ELSE IF r.kind = "short" THEN 19 ELSE 20

\* Hash160 over rand || name, taken to be collision free.
NoHash == [r |-> NoRand, n |-> ""]
Hash160(rand, name) == [r |-> rand, n |-> name]

\* CNameData of a name without a record.
NoData == [present |-> FALSE, value |-> "", outp |-> NoOutp, expired |-> FALSE]

Min(S) == CHOOSE x \in S : \A y \in S : x <= y

(***************************************************************************)
(* Transactions.  Each has one name output, at index nOut, and one change  *)
(* output at the other index.  A name_new output carries only the hash;    *)
(* a name_firstupdate output carries name, value and rand; a name_update   *)
(* output carries name and value.                                           *)
(***************************************************************************)
buildNameNew(dest, name, rand) ==
  [op |-> "name_new", name |-> "", value |-> "", rand |-> NoRand,
   hash |-> Hash160(rand, name), dest |-> dest]

buildNameFirstupdate(dest, name, value, rand) ==
  [op |-> "name_firstupdate", name |-> name, value |-> value, rand |-> rand,
   hash |-> NoHash, dest |-> dest]

buildNameUpdate(dest, name, value) ==
  [op |-> "name_update", name |-> name, value |-> value, rand |-> NoRand,
   hash |-> NoHash, dest |-> dest]

\* The transaction the wallet builds around a name script and a name input.
MakeTx(script, nameInput, nOut, seq) ==
  [op |-> script.op, name |-> script.name, value |-> script.value,
   rand |-> script.rand, hash |-> script.hash, dest |-> script.dest,
   nOut |-> nOut, vin |-> nameInput, seq |-> seq]

\* The transactions of the initial state: a confirmed name_update of "d/b"
\* and a confirmed name_new for "d/a", both of this wallet.
InitialTxs ==
  << MakeTx(buildNameUpdate(KeyDest(0), "d/b", "v1"), NoOutp, 0,
            SEQUENCE_FINAL),
     MakeTx(buildNameNew(KeyDest(1), "d/a", DerivedRand(1, "d/a")), NoOutp, 1,
            SEQUENCE_FINAL) >>
InitTxs == Len(InitialTxs)
NextTxid == Len(txs) + 1
CanBuild(k) == Len(txs) + k <= InitTxs + MaxTx

IsTx(id) == id \in DOMAIN txs
isNameScript(outp) == IsTx(outp[1]) /\ txs[outp[1]].nOut = outp[2]
NameOutput(id) == <<id, txs[id].nOut>>
ChangeOutput(id) == <<id, 1 - txs[id].nOut>>

(***************************************************************************)
(* Ledger queries (chainman.ActiveChainstate().CoinsTip()).                 *)
(***************************************************************************)
GetName(name) == IF name \in DOMAIN nameDB THEN nameDB[name] ELSE NoData

existsName(name) ==
  LET oldData == GetName(name)
  IN  oldData.present /\ ~oldData.expired

(***************************************************************************)
(* Unconfirmed pool queries (CTxMemPool / CNameMemPool).                    *)
(***************************************************************************)
IsPoolOp(id, name) ==
  txs[id].op \in {"name_firstupdate", "name_update"} /\ txs[id].name = name

PoolOps(name) == SelectSeq(pool, LAMBDA id : IsPoolOp(id, name))

registersName(name) ==
  \E i \in 1..Len(pool) :
     txs[pool[i]].op = "name_firstupdate" /\ txs[pool[i]].name = name

pendingNameChainLength(name) == Len(PoolOps(name))

lastNameOutput(name) ==
  LET ops == PoolOps(name)
  IN  IF Len(ops) = 0 THEN NoOutp ELSE NameOutput(ops[Len(ops)])

SpentInPool(outp) == \E i \in 1..Len(pool) : txs[pool[i]].vin = outp

\* pendingOps >= chainLimit, where chainLimit is the int64 setting converted
\* to `unsigned` (modulo 2^32): for a negative setting s the comparison is
\* pendingOps >= s + 2^32, written here with both sides lowered by 2^31.
AtChainLimit_Off(pendingOps, setting) == setting >= 0 /\ pendingOps > setting
AtChainLimit(pendingOps, setting) ==
  IF setting >= 0
    THEN pendingOps >= setting
    ELSE pendingOps - INT_MAX - 1 >= setting + INT_MAX + 1

\* The values -limitnamechains is started with.  The setting is read with
\* gArgs.GetArg on every call; the wallet and the ledger outlive a restart
\* with another setting, so it is an input of the call.
LimitSettings == {-1, 0, 1, 2}

\* Whether the pool would admit the transaction now (consensus and policy
\* rules for name operations; maturity of the input is left to the caller).
PoolAdmits(tx, limitnamechains) ==
  CASE tx.op = "name_new" -> TRUE
    [] tx.op = "name_firstupdate" ->
         /\ tx.vin \in coins
         /\ ~SpentInPool(tx.vin)
         /\ isNameScript(tx.vin)
         /\ txs[tx.vin[1]].op = "name_new"
         /\ txs[tx.vin[1]].hash = Hash160(tx.rand, tx.name)
         /\ ~existsName(tx.name)
         /\ ~registersName(tx.name)
    [] OTHER ->
         /\ ~AtChainLimit(pendingNameChainLength(tx.name), limitnamechains)
         /\ ~SpentInPool(tx.vin)
         /\ IF pendingNameChainLength(tx.name) > 0
              THEN tx.vin = lastNameOutput(tx.name)
              ELSE /\ existsName(tx.name)
                   /\ tx.vin = GetName(tx.name).outp
                   /\ tx.vin \in coins

(***************************************************************************)
(* Secrets and commitments.                                                 *)
(***************************************************************************)
\* getNameSalt (const CKey&, name, rand): HKDF of the key with the name as salt.
getNameSaltKey(key, name) == DerivedRand(key, name)

\* getNameSalt (pwallet, name, output, rand): fails unless the wallet holds
\* the key of the output's destination.
getNameSaltOk(dest) == Owned(dest)
getNameSalt(name, dest) == getNameSaltKey(dest.k, name)

\* A saltMatchesHash that accepts every rand.
saltMatchesHash_Any(name, rand, expectedHash) == TRUE
saltMatchesHash(name, rand, expectedHash) == Hash160(rand, name) = expectedHash

\* CNameScript::getOpHash: the commitment of a name_new output (absent for
\* the other operations).
getOpHash(id) == IF txs[id].op = "name_new" THEN txs[id].hash ELSE NoHash

(***************************************************************************)
(* The record of an RPC call: the name, whether the value was omitted, the *)
(* response (err, tx, rand) and what the handler had resolved: the prior   *)
(* output it spends and the value it sends.                                 *)
(***************************************************************************)
Call(rpc, name, isDefaultVal, err, tx, rand, prev, value) ==
  [rpc |-> rpc, name |-> name, isDefaultVal |-> isDefaultVal, err |-> err,
   tx |-> tx, rand |-> rand, prev |-> prev, value |-> value]

NoCall == Call("none", "", FALSE, "", ZeroTxid, NoRand, NoOutp, "")

\* A serialized transaction: the transaction (named by its txid, the hash of
\* everything but the witness) and its witness, the signatures.  SignedTx is
\* what the wallet's SignTransaction produces.
RawTx(id, wit) == [txid |-> id, wit |-> wit]
SignedTx_Unsigned(id) == RawTx(id, "")
SignedTx(id) == RawTx(id, "sig")

\* queuedTransactionMap with no entry; CWallet::WriteQueuedTransaction, which
\* overwrites on a repeated key, and CWallet::EraseQueuedTransaction.
NoQueue == << >>
WriteQueuedTransaction_KeepFirst(hashTx, mtx) ==
  IF hashTx \in DOMAIN queue THEN queue ELSE (hashTx :> mtx) @@ queue
WriteQueuedTransaction(hashTx, mtx) ==
  [id \in DOMAIN queue \cup {hashTx} |-> IF id = hashTx THEN mtx ELSE queue[id]]
EraseQueuedTransaction(txid) ==
  [id \in DOMAIN queue \ {txid} |-> queue[id]]

\* No handler is in progress.
NoCalls == << >>

\* What a handler has when it returns or throws.
Result(err, rand, prev, value) ==
  [err |-> err, rand |-> rand, prev |-> prev, value |-> value]

\* The wallet, the ledger and the pool at the start: a confirmed name_update
\* of "d/b" and a confirmed name_new for "d/a", nothing pending or queued.
InitState ==
  /\ txs = InitialTxs
  /\ wallet = {1, 2}
  /\ pool = << >>
  /\ coins = { <<1, 0>>, <<1, 1>>, <<2, 0>>, <<2, 1>> }
  /\ nameDB = [n \in Names |->
                 IF n = "d/b"
                   THEN [present |-> TRUE, value |-> "v1", outp |-> <<1, 0>>,
                         expired |-> FALSE]
                   ELSE NoData]
  /\ queue = NoQueue
  /\ locked = {}
  /\ nextKey = 2
  /\ chain = {1, 2}
  /\ last = NoCall

Init ==
  /\ InitState
  /\ calls = NoCalls

(***************************************************************************)
(* DestinationAddressHelper and SendNameOutput.                             *)
(*                                                                          *)
(* What the wallet does outside this file is an input of the call:         *)
(*   "locked"  EnsureWalletIsUnlocked throws,                               *)
(*   "keypool" GetReservedDestination finds no key,                         *)
(*   "funds"   SendMoney / CreateTransaction throws,                        *)
(*   "sign"    SignTransaction fails,                                       *)
(*   "queue"   WriteQueuedTransaction fails,                                *)
(*   "ok"      everything succeeds.                                         *)
(***************************************************************************)
WalletEnv == {"ok", "locked", "keypool", "funds"}
QueueEnv == WalletEnv \cup {"sign", "queue"}

ErrLocked == "Error: Please enter the wallet passphrase with walletpassphrase first."
ErrKeypool == "Error: Keypool ran out, please call keypoolrefill first"
ErrFunds == "Insufficient funds"

\* DestinationAddressHelper::getScript with the key pool at index `key`.
getScript(destArg, key) == IF destArg # NoDestArg THEN ExtDest ELSE KeyDest(key)

\* getScript throws when it has to reserve a key and the pool has none.  The
\* variant finds a key in every pool.
KeypoolRanOut_Never(destArg, env) == FALSE
KeypoolRanOut(destArg, env) == destArg = NoDestArg /\ env = "keypool"

\* EnsureWalletIsUnlocked, getScript and SendNameOutput, in this order: the
\* error thrown, or "ok".
WalletErr(destArg, env) ==
  IF env = "locked" THEN ErrLocked
  ELSE IF KeypoolRanOut(destArg, env) THEN ErrKeypool
  ELSE IF env = "funds" THEN ErrFunds
  ELSE "ok"

\* SendNameOutput -> SendMoney -> CommitTransaction, then destHelper.finalise:
\* the transaction is recorded in the wallet and submitted to the pool, and a
\* reserved key is kept.  The variant releases the queue as it sends.
SendAndFinalise_ClearsQueue(tx, admitted, destArg, call) ==
  /\ CanBuild(1)
  /\ txs' = Append(txs, tx)
  /\ wallet' = wallet \cup {NextTxid}
  /\ pool' = IF admitted THEN Append(pool, NextTxid) ELSE pool
  /\ nextKey' = IF destArg = NoDestArg THEN nextKey + 1 ELSE nextKey
  /\ last' = call
  /\ queue' = NoQueue
  /\ UNCHANGED <<coins, nameDB, locked, chain>>
SendAndFinalise(tx, admitted, destArg, call) ==
  /\ CanBuild(1)
  /\ txs' = Append(txs, tx)
  /\ wallet' = wallet \cup {NextTxid}
  /\ pool' = IF admitted THEN Append(pool, NextTxid) ELSE pool
  /\ nextKey' = IF destArg = NoDestArg THEN nextKey + 1 ELSE nextKey
  /\ last' = call
  /\ UNCHANGED <<coins, nameDB, queue, locked, chain>>

\* The same as the whole of a handler that runs with no other in progress.
SendNameOutput(tx, admitted, destArg, call) ==
  /\ SendAndFinalise(tx, admitted, destArg, call)
  /\ UNCHANGED calls

(***************************************************************************)
(* name_new                                                                 *)
(***************************************************************************)
\* A name_new without the check at lines 684-690.
NewResult_NoExistsCheck(name, allowExisting, destArg, env) ==
  IF NameSize(name) > MAX_NAME_LENGTH
    THEN Result("the name is too long", NoRand, NoOutp, "")
  ELSE IF WalletErr(destArg, env) # "ok"
    THEN Result(WalletErr(destArg, env), NoRand, NoOutp, "")
  ELSE Result("ok", RandomRand(NextTxid), NoOutp, "")
NewResult(name, allowExisting, destArg, env) ==
  LET output == getScript(destArg, nextKey)
      rand == IF getNameSaltOk(output)
                THEN getNameSalt(name, output)
                ELSE RandomRand(NextTxid)
      E(err) == Result(err, NoRand, NoOutp, "")
  IN
  IF NameSize(name) > MAX_NAME_LENGTH THEN E("the name is too long")
  ELSE IF ~allowExisting /\ existsName(name) THEN E("this name exists already")
  ELSE IF WalletErr(destArg, env) # "ok" THEN E(WalletErr(destArg, env))
  ELSE Result("ok", rand, NoOutp, "")

name_new(name, allowExisting, destArg, env, nOut) ==
  \E r \in {NewResult(name, allowExisting, destArg, env)} :
    /\ r.err = "ok"
    /\ \E tx \in {MakeTx(buildNameNew(getScript(destArg, nextKey), name,
                                      r.rand),
                         NoOutp, nOut, SEQUENCE_FINAL)} :
         SendNameOutput(tx, PoolAdmits(tx, 0), destArg,
                        Call("name_new", name, FALSE, "ok", NextTxid, r.rand,
                             NoOutp, ""))

(***************************************************************************)
(* name_firstupdate                                                         *)
(***************************************************************************)
NullTx == -1     \* the "tx" argument is null

\* The secrets and txids a caller may pass: null, every secret committed to
\* by a transaction built so far, a secret nobody committed to, one of 21
\* bytes; null, the zero hash, every txid built so far, an unknown txid.
RandArgs ==
  {NoRand, WrongRand, LongRand}
    \cup {txs[id].hash.r : id \in {i \in DOMAIN txs : txs[i].op = "name_new"}}
TxidArgs == {NullTx, ZeroTxid} \cup DOMAIN txs \cup {NextTxid}

\* A getNamePrevout that gives up after the first index.
NamePrevoutCands_FirstOnly(txid) ==
  {c \in coins : c[1] = txid /\ c[2] < 1 /\ isNameScript(c)}

\* getNamePrevout: the first index below MAX_NAME_PREVOUT_TRIALS whose coin
\* is in the coin set and carries a name script.
NamePrevoutCands(txid) ==
  {c \in coins : /\ c[1] = txid
                 /\ c[2] < MAX_NAME_PREVOUT_TRIALS
                 /\ isNameScript(c)}
getNamePrevoutFound(txid) == NamePrevoutCands(txid) # {}
getNamePrevout(txid) == <<txid, Min({c[2] : c \in NamePrevoutCands(txid)})>>

\* The wallet scan of name_firstupdate without a txid: the wallet
\* transactions holding a name_new output whose hash matches the secret
\* (the given one, or the one derived from the output's key).  mapWallet is
\* ordered by txid hash, so which match comes first is not determined here.
ScanMatches(name, fixedRand, randArg) ==
  {id \in wallet :
     /\ txs[id].op = "name_new"
     /\ fixedRand \/ getNameSaltOk(txs[id].dest)
     /\ saltMatchesHash(name,
                        IF fixedRand THEN randArg
                                     ELSE getNameSalt(name, txs[id].dest),
                        getOpHash(id))}

ScanPrevTxid(name, randArg, txArg) ==
  IF txArg # NullTx THEN {txArg}
  ELSE IF ScanMatches(name, randArg # NoRand, randArg) = {} THEN {ZeroTxid}
  ELSE ScanMatches(name, randArg # NoRand, randArg)

\* The early checks without the one at lines 849-855.
FirstupdateEarlyErr_NoRegisterCheck(name, randArg, valArg, allow_active) ==
  IF NameSize(name) > MAX_NAME_LENGTH THEN "the name is too long"
  ELSE IF randArg # NoRand /\ RandSize(randArg) > 20 THEN "invalid rand value"
  ELSE IF valArg # NullArg /\ ValueSize(valArg) > MAX_VALUE_LENGTH_UI
    THEN "the value is too long"
  ELSE IF ~allow_active /\ existsName(name) THEN "this name is already active"
  ELSE "ok"

\* The early checks with the one at lines 857-860 skipped as if allow_active
\* were always set.
FirstupdateEarlyErr_NoActiveCheck(name, randArg, valArg, allow_active) ==
  IF NameSize(name) > MAX_NAME_LENGTH THEN "the name is too long"
  ELSE IF randArg # NoRand /\ RandSize(randArg) > 20 THEN "invalid rand value"
  ELSE IF valArg # NullArg /\ ValueSize(valArg) > MAX_VALUE_LENGTH_UI
    THEN "the value is too long"
  ELSE IF registersName(name) THEN "this name is already being registered"
  ELSE "ok"

\* The checks of name_firstupdate up to the scan for the previous txid.
FirstupdateEarlyErr(name, randArg, valArg, allow_active) ==
  IF NameSize(name) > MAX_NAME_LENGTH THEN "the name is too long"
  ELSE IF randArg # NoRand /\ RandSize(randArg) > 20 THEN "invalid rand value"
  ELSE IF valArg # NullArg /\ ValueSize(valArg) > MAX_VALUE_LENGTH_UI
    THEN "the value is too long"
  ELSE IF registersName(name) THEN "this name is already being registered"
  ELSE IF ~allow_active /\ existsName(name) THEN "this name is already active"
  ELSE "ok"

\* The rand name_firstupdate ends with: the given one, or the one derived
\* from the key of the previous output.
FirstupdateRand(name, randArg, prevTxid) ==
  IF randArg # NoRand THEN randArg
  ELSE IF getNamePrevoutFound(prevTxid)
            /\ getNameSaltOk(txs[getNamePrevout(prevTxid)[1]].dest)
    THEN getNameSalt(name, txs[getNamePrevout(prevTxid)[1]].dest)
  ELSE NoRand

\* The checks on the previous output without the ones on the rand.
FirstupdatePrevErr_NoRandCheck(name, randArg, prevTxid) ==
  IF prevTxid = ZeroTxid THEN "scan for previous txid failed"
  ELSE IF ~getNamePrevoutFound(prevTxid) THEN "previous txid not found"
  ELSE IF randArg = NoRand
            /\ ~getNameSaltOk(txs[getNamePrevout(prevTxid)[1]].dest)
    THEN "could not generate rand for txid"
  ELSE IF txs[getNamePrevout(prevTxid)[1]].op # "name_new"
    THEN "previous tx is not name_new"
  ELSE "ok"

\* The checks on the previous output, with prevTxid the txid the scan ends
\* with: the error thrown, or "ok".
FirstupdatePrevErr(name, randArg, prevTxid) ==
  LET fixedRand == randArg # NoRand
      outp == getNamePrevout(prevTxid)
      rand == FirstupdateRand(name, randArg, prevTxid)
  IN
  IF prevTxid = ZeroTxid THEN "scan for previous txid failed"
  ELSE IF ~getNamePrevoutFound(prevTxid) THEN "previous txid not found"
  ELSE IF ~fixedRand /\ ~getNameSaltOk(txs[outp[1]].dest)
    THEN "could not generate rand for txid"
  ELSE IF ~fixedRand /\ ~saltMatchesHash(name, rand, getOpHash(outp[1]))
    THEN "generated rand for txid does not match"
  ELSE IF txs[outp[1]].op # "name_new" THEN "previous tx is not name_new"
  ELSE IF ~saltMatchesHash(name, rand, getOpHash(outp[1]))
    THEN "rand value is wrong"
  ELSE "ok"

\* name_firstupdate, with prevTxid the txid the scan ends with.
FirstupdateResult(name, randArg, txArg, valArg, allow_active, destArg, prevTxid, env) ==
  LET early == FirstupdateEarlyErr(name, randArg, valArg, allow_active)
      prevErr == FirstupdatePrevErr(name, randArg, prevTxid)
      E(err) == Result(err, NoRand, NoOutp, "")
  IN
  IF early # "ok" THEN E(early)
  ELSE IF prevErr # "ok" THEN E(prevErr)
  ELSE IF WalletErr(destArg, env) # "ok" THEN E(WalletErr(destArg, env))
  ELSE Result("ok", FirstupdateRand(name, randArg, prevTxid),
              getNamePrevout(prevTxid),
              IF valArg = NullArg THEN "" ELSE valArg)

name_firstupdate(name, randArg, txArg, valArg, allow_active, destArg, prevTxid, env, nOut) ==
  /\ prevTxid \in ScanPrevTxid(name, randArg, txArg)
  /\ \E r \in {FirstupdateResult(name, randArg, txArg, valArg, allow_active,
                                  destArg, prevTxid, env)} :
       /\ r.err = "ok"
       /\ \E tx \in {MakeTx(buildNameFirstupdate(getScript(destArg, nextKey),
                                                 name, r.value, r.rand),
                            r.prev, nOut, SEQUENCE_FINAL)} :
            SendNameOutput(tx, PoolAdmits(tx, 0), destArg,
                           Call("name_firstupdate", name, valArg = NullArg,
                                "ok", NextTxid, r.rand, r.prev, r.value))

(***************************************************************************)
(* name_update                                                              *)
(***************************************************************************)
ErrChainLimit == "there are already too many pending operations on this name"

\* A name_update that always builds on the ledger record.
UpdateOutp_Confirmed(name) == GetName(name).outp

\* The outpoint name_update spends: the last pending output of the name when
\* the pool has operations on it, else the outpoint of the ledger record.
UpdateOutp(name) ==
  IF pendingNameChainLength(name) > 0 /\ lastNameOutput(name) # NoOutp
    THEN lastNameOutput(name)
    ELSE GetName(name).outp

\* A name_update that takes the default value from the ledger record alone.
UpdateValue_Confirmed(name, valArg) ==
  IF valArg # NullArg THEN valArg ELSE GetName(name).value

\* The value name_update sends: the given one, or the one of the output it
\* spends.
UpdateValue(name, valArg) ==
  IF valArg # NullArg THEN valArg
  ELSE IF pendingNameChainLength(name) > 0 /\ lastNameOutput(name) # NoOutp
    THEN txs[lastNameOutput(name)[1]].value
  ELSE GetName(name).value

\* A name_update without the check at lines 1066-1068: the ledger record is
\* used as it is.
UpdateResult_NoRecordCheck(name, valArg, destArg, limitnamechains, env) ==
  LET pendingOps == pendingNameChainLength(name)
      E(err) == Result(err, NoRand, NoOutp, "")
  IN
  IF NameSize(name) > MAX_NAME_LENGTH THEN E("the name is too long")
  ELSE IF valArg # NullArg /\ ValueSize(valArg) > MAX_VALUE_LENGTH_UI
    THEN E("the value is too long")
  ELSE IF AtChainLimit(pendingOps, limitnamechains)
    THEN E(ErrChainLimit)
  ELSE IF WalletErr(destArg, env) # "ok" THEN E(WalletErr(destArg, env))
  ELSE Result("ok", NoRand, UpdateOutp(name), UpdateValue(name, valArg))

UpdateResult(name, valArg, destArg, limitnamechains, env) ==
  LET pendingOps == pendingNameChainLength(name)
      oldData == GetName(name)
      E(err) == Result(err, NoRand, NoOutp, "")
  IN
  IF NameSize(name) > MAX_NAME_LENGTH THEN E("the name is too long")
  ELSE IF valArg # NullArg /\ ValueSize(valArg) > MAX_VALUE_LENGTH_UI
    THEN E("the value is too long")
  ELSE IF AtChainLimit(pendingOps, limitnamechains)
    THEN E(ErrChainLimit)
  ELSE IF ~(pendingOps > 0 /\ lastNameOutput(name) # NoOutp)
            /\ (~oldData.present \/ oldData.expired)
    THEN E("this name can not be updated")
  ELSE IF WalletErr(destArg, env) # "ok" THEN E(WalletErr(destArg, env))
  ELSE Result("ok", NoRand, UpdateOutp(name), UpdateValue(name, valArg))

name_update(name, valArg, destArg, limitnamechains, env, nOut) ==
  \E r \in {UpdateResult(name, valArg, destArg, limitnamechains, env)} :
    /\ r.err = "ok"
    /\ \E tx \in {MakeTx(buildNameUpdate(getScript(destArg, nextKey), name,
                                         r.value),
                         r.prev, nOut, SEQUENCE_FINAL)} :
         SendNameOutput(tx, PoolAdmits(tx, limitnamechains), destArg,
                        Call("name_update", name, valArg = NullArg, "ok",
                             NextTxid, NoRand, r.prev, r.value))

(***************************************************************************)
(* name_autoregister (without delegation): issue_nn broadcasts the         *)
(* name_new, queue_nfu builds the name_firstupdate on its name output with *)
(* nSequence 13, locks its inputs, commits it to the wallet and writes it  *)
(* to the queue.                                                            *)
(***************************************************************************)
ErrSign == "Error signing transaction"
ErrQueue == "Error queueing transaction"

\* The checks ahead of issue_nn's send: the error thrown, or "ok".
AutoregisterResult(name, valArg, allowExisting, destArg, env) ==
  LET value == IF valArg = NullArg THEN "" ELSE valArg
      output == getScript(destArg, nextKey)
      rand == IF getNameSaltOk(output)
                THEN getNameSalt(name, output)
                ELSE RandomRand(NextTxid)
      E(err) == Result(err, NoRand, NoOutp, "")
  IN
  IF NameSize(name) > MAX_NAME_LENGTH THEN E("the name is too long")
  ELSE IF ValueSize(value) > MAX_VALUE_LENGTH_UI THEN E("the value is too long")
  ELSE IF ~allowExisting /\ existsName(name) THEN E("this name exists already")
  ELSE IF WalletErr(destArg, env) # "ok" THEN E(WalletErr(destArg, env))
  ELSE Result("ok", rand, NoOutp, value)

\* queue_nfu after issue_nn has sent: the error thrown, or "ok".
QueueNfuErr(destArg, env2) ==
  IF WalletErr(destArg, env2) # "ok" THEN WalletErr(destArg, env2)
  ELSE IF env2 = "sign" THEN ErrSign
  ELSE IF env2 = "queue" THEN ErrQueue
  ELSE "ok"

\* queue_nfu throws before LockCoin and CommitTransaction.
QueueNfuBuilds(destArg, env2) == QueueNfuErr(destArg, env2) \in {"ok", ErrQueue}

name_autoregister(name, valArg, allowExisting, destArg, env, nOut, env2, nOut2) ==
  \E r \in {AutoregisterResult(name, valArg, allowExisting, destArg, env)} :
    /\ r.err = "ok"
    /\ CanBuild(IF QueueNfuBuilds(destArg, env2) THEN 2 ELSE 1)
    /\ LET txid == NextTxid
           kept == IF destArg = NoDestArg THEN 1 ELSE 0
           nn == MakeTx(buildNameNew(getScript(destArg, nextKey), name, r.rand),
                        NoOutp, nOut, SEQUENCE_FINAL)
           txIn == <<txid, nOut>>
           nfu == MakeTx(buildNameFirstupdate(
                           getScript(destArg, nextKey + kept), name, r.value,
                           r.rand),
                         txIn, nOut2, TWELVE_PLUS_ONE)
           err2 == QueueNfuErr(destArg, env2)
       IN  /\ IF QueueNfuBuilds(destArg, env2)
                THEN /\ txs' = txs \o <<nn, nfu>>
                     /\ wallet' = wallet \cup {txid, txid + 1}
                     /\ locked' = locked \cup {txIn}
                ELSE /\ txs' = Append(txs, nn)
                     /\ wallet' = wallet \cup {txid}
                     /\ locked' = locked
           \* the name_firstupdate is not admitted: its input is unconfirmed
           /\ pool' = Append(pool, txid)
           /\ queue' = IF err2 = "ok"
                         THEN WriteQueuedTransaction(txid + 1, SignedTx(txid + 1))
                         ELSE queue
           /\ nextKey' = nextKey + kept + (IF err2 = "ok" THEN kept ELSE 0)
           /\ last' = Call("name_autoregister", name, valArg = NullArg, err2,
                           txid, r.rand, txIn, r.value)
           /\ UNCHANGED <<coins, nameDB, chain, calls>>

(***************************************************************************)
(* The environment: a block confirms the oldest pool transaction; a name   *)
(* expires; the wallet resubmits a recorded transaction to the pool.       *)
(***************************************************************************)
Confirm ==
  /\ Len(pool) > 0
  /\ LET id == Head(pool)
         tx == txs[id]
     IN  /\ pool' = Tail(pool)
         /\ chain' = chain \cup {id}
         /\ coins' = (coins \ {tx.vin}) \cup {NameOutput(id), ChangeOutput(id)}
         /\ nameDB' = IF tx.op = "name_new"
                        THEN nameDB
                        ELSE [nameDB EXCEPT ![tx.name] =
                                [present |-> TRUE, value |-> tx.value,
                                 outp |-> NameOutput(id), expired |-> FALSE]]
  /\ last' = NoCall
  /\ UNCHANGED <<txs, wallet, queue, locked, nextKey, calls>>

Expire(name) ==
  /\ existsName(name)
  /\ pendingNameChainLength(name) = 0
  /\ nameDB' = [nameDB EXCEPT ![name].expired = TRUE]
  /\ coins' = coins \ {nameDB[name].outp}
  /\ last' = NoCall
  /\ UNCHANGED <<txs, wallet, pool, queue, locked, nextKey, chain, calls>>

Rebroadcast(id) ==
  /\ id \in wallet
  /\ id \notin chain
  /\ \A i \in 1..Len(pool) : pool[i] # id
  /\ \E limitnamechains \in LimitSettings : PoolAdmits(txs[id], limitnamechains)
  /\ pool' = Append(pool, id)
  /\ last' = NoCall
  /\ UNCHANGED <<txs, wallet, coins, nameDB, queue, locked, nextKey, chain,
                 calls>>

\* The calls are enumerated from the inputs that decide early errors to the
\* ones that decide late errors; a conjunct ahead of an action repeats part
\* of the action's guard and only saves enumerating calls that throw.
Next ==
  \/ /\ CanBuild(1)
     /\ \E destArg \in DestArgs, env \in WalletEnv :
          /\ WalletErr(destArg, env) = "ok"
          /\ \E name \in NameArgs, allowExisting \in BOOLEAN, nOut \in 0..1 :
               name_new(name, allowExisting, destArg, env, nOut)
  \/ /\ CanBuild(1)
     /\ \E name \in NameArgs, allow_active \in BOOLEAN :
          /\ FirstupdateEarlyErr(name, NoRand, NullArg, allow_active) = "ok"
          /\ \E randArg \in RandArgs, txArg \in TxidArgs :
               \E prevTxid \in ScanPrevTxid(name, randArg, txArg) :
                 /\ FirstupdateResult(name, randArg, txArg, NullArg,
                                      allow_active, "ext", prevTxid, "ok").err
                      = "ok"
                 /\ \E destArg \in DestArgs, env \in WalletEnv :
                      /\ WalletErr(destArg, env) = "ok"
                      /\ \E valArg \in ValueArgs, nOut \in 0..1 :
                           name_firstupdate(name, randArg, txArg, valArg,
                                            allow_active, destArg, prevTxid,
                                            env, nOut)
  \/ /\ CanBuild(1)
     /\ \E name \in NameArgs, limitnamechains \in LimitSettings :
          /\ UpdateResult(name, NullArg, "ext", limitnamechains, "ok").err = "ok"
          /\ \E destArg \in DestArgs, env \in WalletEnv :
               /\ WalletErr(destArg, env) = "ok"
               /\ \E valArg \in ValueArgs, nOut \in 0..1 :
                    name_update(name, valArg, destArg, limitnamechains, env,
                                nOut)
  \/ /\ CanBuild(1)
     /\ \E name \in NameArgs, valArg \in ValueArgs, allowExisting \in BOOLEAN :
          /\ AutoregisterResult(name, valArg, allowExisting, "ext", "ok").err
               = "ok"
          /\ \E destArg \in DestArgs, env \in WalletEnv :
               /\ WalletErr(destArg, env) = "ok"
               /\ \E nOut \in 0..1, env2 \in QueueEnv, nOut2 \in 0..1 :
                    name_autoregister(name, valArg, allowExisting, destArg,
                                      env, nOut, env2, nOut2)
  \/ Confirm
  \/ \E name \in Names : Expire(name)
  \/ \E id \in DOMAIN txs : Rebroadcast(id)

Spec == Init /\ [][Next]_vars

(***************************************************************************)
(* Concurrent calls of name_update.  The RPC server runs handlers on       *)
(* several threads, and name_update holds no lock from its first line to   *)
(* its last: it reads the pool inside LOCK (mempool.cs) (lines 1039-1058), *)
(* reads the ledger inside LOCK (cs_main) (1060-1072) and sends through    *)
(* the wallet (1082-1092).  Each locked region is one step of a thread;    *)
(* the thread's frame holds the handler's locals between the steps.        *)
(***************************************************************************)
Threads == {1, 2}

Frame(pc, name, isDefaultVal, value, limit, outp) ==
  [pc |-> pc, name |-> name, isDefaultVal |-> isDefaultVal, value |-> value,
   limit |-> limit, outp |-> outp]

Idle == Frame("idle", "", FALSE, "", 0, NoOutp)

InitConc ==
  /\ InitState
  /\ calls = [t \in Threads |-> Idle]

\* Lines 1016-1058: the arguments, then the pool under mempool.cs.  A call
\* that throws here ends without a trace.  -limitnamechains is one setting
\* of the process: calls in progress together read the same value.
UpdateCheckPool(t, name, valArg, limitnamechains) ==
  /\ calls[t].pc = "idle"
  /\ \A u \in Threads :
       calls[u].pc # "idle" => calls[u].limit = limitnamechains
  /\ NameSize(name) <= MAX_NAME_LENGTH
  /\ valArg # NullArg => ValueSize(valArg) <= MAX_VALUE_LENGTH_UI
  /\ LET pendingOps == pendingNameChainLength(name)
         outp == IF pendingOps > 0 THEN lastNameOutput(name) ELSE NoOutp
         value == IF valArg # NullArg THEN valArg
                  ELSE IF pendingOps > 0 THEN txs[outp[1]].value
                  ELSE ""
     IN  /\ ~AtChainLimit(pendingOps, limitnamechains)
         /\ calls' = [calls EXCEPT ![t] =
                        Frame("lookup", name, valArg = NullArg, value,
                              limitnamechains, outp)]
  /\ UNCHANGED <<txs, wallet, pool, coins, nameDB, queue, locked, nextKey,
                 chain, last>>

\* Lines 1060-1074: with nothing found in the pool, the ledger under cs_main;
\* "this name can not be updated" ends the call.
UpdateLookup(t) ==
  /\ calls[t].pc = "lookup"
  /\ LET f == calls[t]
         oldData == GetName(f.name)
     IN  calls' = [calls EXCEPT ![t] =
           IF f.outp # NoOutp THEN [f EXCEPT !.pc = "send"]
           ELSE IF ~oldData.present \/ oldData.expired THEN Idle
           ELSE [f EXCEPT !.pc = "send",
                          !.value = IF f.isDefaultVal THEN oldData.value
                                                      ELSE f.value,
                          !.outp = oldData.outp]]
  /\ UNCHANGED <<txs, wallet, pool, coins, nameDB, queue, locked, nextKey,
                 chain, last>>

\* Lines 1076-1096: EnsureWalletIsUnlocked, getScript, SendNameOutput and
\* finalise; an error of the wallet ends the call.
UpdateSend(t, destArg, env, nOut) ==
  /\ calls[t].pc = "send"
  /\ LET f == calls[t]
         tx == MakeTx(buildNameUpdate(getScript(destArg, nextKey), f.name,
                                      f.value),
                      f.outp, nOut, SEQUENCE_FINAL)
     IN  IF WalletErr(destArg, env) # "ok"
           THEN UNCHANGED <<txs, wallet, pool, coins, nameDB, queue, locked,
                            nextKey, chain, last>>
           ELSE SendAndFinalise(tx, PoolAdmits(tx, f.limit), destArg,
                                Call("name_update", f.name, f.isDefaultVal,
                                     "ok", NextTxid, NoRand, f.outp, f.value))
  /\ calls' = [calls EXCEPT ![t] = Idle]

NextConc ==
  \/ \E t \in Threads, name \in NameArgs, valArg \in ValueArgs,
        limitnamechains \in LimitSettings :
       UpdateCheckPool(t, name, valArg, limitnamechains)
  \/ \E t \in Threads : UpdateLookup(t)
  \/ \E t \in Threads, destArg \in DestArgs, env \in WalletEnv, nOut \in 0..1 :
       UpdateSend(t, destArg, env, nOut)
  \/ Confirm

SpecConc == InitConc /\ [][NextConc]_vars

(***************************************************************************)
(* name_autoregister step by step, with the "delegate" option.  The name   *)
(* is prefix ++ mainLabel (mainLabel from the first '/' on), the delegated *)
(* name is "dd" or "idd" ++ mainLabel ++ decimal digits, or the fallback   *)
(* prefix ++ "/" ++ 8 hex digits.  issue_nn and queue_nfu each run inside  *)
(* LOCK (pwallet->cs_wallet) and are one step each; every turn of the two  *)
(* loops of the delegation block makes one existsName call and is one step.*)
(***************************************************************************)
DName(prefix, label, suffix, hex) ==
  [prefix |-> prefix, label |-> label, suffix |-> suffix, hex |-> hex]

\* Main labels by size: a short one and two that bring the name to the limit.
Labels == {"/example", "/L253", "/L254"}
LabelSize(label) ==
  CASE label = "/example" -> 8
    [] label = "/L252" -> 252
    [] label = "/L253" -> 253
    [] label = "/L254" -> 254
    [] label = "/" -> 1

Prefixes == {"d", "id", "x"}
ParentNames == {DName(p, l, << >>, << >>) : p \in Prefixes, l \in Labels}

\* size () of a name: prefix, label, one byte a digit, two bytes a hex byte.
DNameSize(n) == Len(n.prefix) + LabelSize(n.label) + Len(n.suffix) + 2 * Len(n.hex)

\* '0' + (rand[0] % 10), and the four random bytes of the fallback.
Digits == {0, 1, 9}
RandBytes4 == {<<0, 0, 0, 0>>, <<247, 245, 253, 189>>}

\* strprintf ("%s/%hh02x%hh02x%hh02x%hh02x", prefix, rand[0], .., rand[3])
\* The variant formats the same four bytes whatever was drawn.
FallbackName_Fixed(prefix, rand) == DName(prefix, "/", << >>, <<0, 0, 0, 0>>)
FallbackName(prefix, rand) == DName(prefix, "/", << >>, rand)

\* A value: the text and, for strprintf ("{\"import\":\"%s\"}", delegatedName),
\* the name the text is formatted with.
NoDName == DName("", "/", << >>, << >>)
PlainValue(text) == [text |-> text, import |-> NoDName]
ImportValue(delegatedName) ==
  [text |-> "{\"import\":\"%s\"}", import |-> delegatedName]

\* prefix + mainLabel + suffix, and the same with the suffix left out.
CandidateName_NoSuffix(prefix, mainLabel, suffix) ==
  DName(prefix, mainLabel, << >>, << >>)
CandidateName(prefix, mainLabel, suffix) ==
  DName(prefix, mainLabel, suffix, << >>)

\* The value queue_nfu is called with: first for the name (the import value
\* when delegating), then for the delegated name.  The variant gives both
\* the caller's value.
QueueNfuValue_Callers(first, isDelegated, delegatedName, value) == value
QueueNfuValue(first, isDelegated, delegatedName, value) ==
  IF first /\ isDelegated THEN ImportValue(delegatedName) ELSE value

\* The condition of the do-while loop and the one of the fallback loop.
RetryCandidate(delegatedName, exists) ==
  exists /\ DNameSize(delegatedName) <= MAX_NAME_LENGTH
FallbackNeeded_ExistsOnly(delegatedName, exists) == exists
FallbackNeeded(delegatedName, exists) ==
  exists \/ DNameSize(delegatedName) > MAX_NAME_LENGTH

\* The locals of the handler.  info and info2 are what issue_nn returned,
\* lastCheck is the last existsName call of the delegation block.
NoInfo == [txid |-> ZeroTxid, rand |-> NoRand]
NoCheck == [made |-> FALSE, name |-> NoDName, exists |-> FALSE]
AIdle ==
  [pc |-> "idle", name |-> NoDName, value |-> PlainValue(""),
   isDelegated |-> FALSE, destArg |-> NoDestArg, suffix |-> << >>,
   delegatedName |-> NoDName,
   lastCheck |-> NoCheck, info |-> NoInfo, info2 |-> NoInfo, err |-> ""]

\* Names the ledger may hold when the call starts.
LedgerNames ==
  { DName("d", "/example", << >>, << >>),
    DName("dd", "/example", << >>, << >>),
    DName("dd", "/example", <<1>>, << >>),
    DName("dd", "/L253", << >>, << >>),
    FallbackName("dd", <<0, 0, 0, 0>>) }

InitDeleg ==
  /\ txs = << >>
  /\ wallet = {}
  /\ pool = << >>
  /\ coins = {}
  /\ \E S \in SUBSET LedgerNames :
       nameDB = [n \in S |-> [present |-> TRUE, value |-> "v1",
                               outp |-> NoOutp, expired |-> FALSE]]
  /\ queue = NoQueue
  /\ locked = {}
  /\ nextKey = 0
  /\ chain = {}
  /\ last = NoCall
  /\ calls = <<AIdle>>

\* Lines 440-483: the checks and the split of the name.
AutoregisterBegin(name, valArg, allowExisting, delegate, destArg) ==
  /\ calls[1].pc = "idle"
  /\ DNameSize(name) <= MAX_NAME_LENGTH
  /\ valArg # NullArg => ValueSize(valArg) <= MAX_VALUE_LENGTH_UI
  /\ allowExisting \/ ~existsName(name)
  /\ delegate => name.prefix \in {"d", "id"}
  /\ calls' = [calls EXCEPT ![1] =
       [AIdle EXCEPT !.pc = IF delegate THEN "plan" ELSE "nn",
                     !.name = name,
                     !.value = PlainValue(IF valArg = NullArg THEN ""
                                                              ELSE valArg),
                     !.isDelegated = delegate,
                     !.destArg = destArg]]
  /\ UNCHANGED <<txs, wallet, pool, coins, nameDB, queue, locked, nextKey,
                 chain, last>>

\* Lines 485-493, one turn of the do-while loop.
PlanCandidate(digit) ==
  /\ calls[1].pc = "plan"
  /\ LET f == calls[1]
         prefix == IF f.name.prefix = "d" THEN "dd" ELSE "idd"
         delegatedName == CandidateName(prefix, f.name.label, f.suffix)
         exists == existsName(delegatedName)
     IN  calls' = [calls EXCEPT ![1] =
           [f EXCEPT !.delegatedName = delegatedName,
                     !.suffix = Append(f.suffix, digit),
                     !.lastCheck = [made |-> TRUE, name |-> delegatedName,
                                    exists |-> exists],
                     !.pc = IF RetryCandidate(delegatedName, exists)
                              THEN "plan" ELSE "fallback"]]
  /\ UNCHANGED <<txs, wallet, pool, coins, nameDB, queue, locked, nextKey,
                 chain, last>>

\* Lines 495-504, one test of the while loop, with its body or the exit.
PlanFallback(rand) ==
  /\ calls[1].pc = "fallback"
  /\ LET f == calls[1]
         prefix == IF f.name.prefix = "d" THEN "dd" ELSE "idd"
         exists == existsName(f.delegatedName)
     IN  calls' = [calls EXCEPT ![1] =
           [f EXCEPT !.lastCheck = [made |-> TRUE, name |-> f.delegatedName,
                                    exists |-> exists],
                     !.delegatedName =
                        IF FallbackNeeded(f.delegatedName, exists)
                          THEN FallbackName(prefix, rand)
                          ELSE f.delegatedName,
                     !.pc = IF FallbackNeeded(f.delegatedName, exists)
                              THEN "fallback" ELSE "nn"]]
  /\ UNCHANGED <<txs, wallet, pool, coins, nameDB, queue, locked, nextKey,
                 chain, last>>

\* Lines 513-544, issue_nn for the name and then, when delegating, for the
\* delegated name: EnsureWalletIsUnlocked, getScript, the rand, SendNameOutput
\* and finalise.  An error of the wallet ends the call.
IssueNn(env, nOut) ==
  /\ calls[1].pc \in {"nn", "nn2"}
  /\ LET f == calls[1]
         name == IF f.pc = "nn" THEN f.name ELSE f.delegatedName
         output == getScript(f.destArg, nextKey)
         rand == IF getNameSaltOk(output) THEN getNameSalt(name, output)
                                          ELSE RandomRand(NextTxid)
         tx == MakeTx(buildNameNew(output, name, rand), NoOutp, nOut,
                      SEQUENCE_FINAL)
         info == [txid |-> NextTxid, rand |-> rand]
     IN  IF WalletErr(f.destArg, env) # "ok"
           THEN /\ calls' = [calls EXCEPT ![1] =
                     [f EXCEPT !.pc = "failed",
                               !.err = WalletErr(f.destArg, env)]]
                /\ UNCHANGED <<txs, wallet, pool, coins, nameDB, queue, locked,
                               nextKey, chain, last>>
           ELSE /\ SendAndFinalise(tx, PoolAdmits(tx, 0), f.destArg,
                                   Call("name_autoregister", name, FALSE, "ok",
                                        NextTxid, rand, NoOutp, ""))
                /\ calls' = [calls EXCEPT ![1] =
                     IF f.pc = "nn"
                       THEN [f EXCEPT !.info = info,
                                      !.pc = IF f.isDelegated THEN "nn2"
                                                              ELSE "nfu"]
                       ELSE [f EXCEPT !.info2 = info, !.pc = "nfu"]]

\* Lines 546-619, queue_nfu for the name and then, when delegating, for the
\* delegated name.  The name_firstupdate spends the name output of the
\* name_new that info names; a delegating call gives the name the import
\* value and the delegated name the caller's value.
QueueNfu(env2, nOut2) ==
  /\ calls[1].pc \in {"nfu", "nfu2"}
  /\ LET f == calls[1]
         first == f.pc = "nfu"
         name == IF first THEN f.name ELSE f.delegatedName
         value == QueueNfuValue(first, f.isDelegated, f.delegatedName, f.value)
         info == IF first THEN f.info ELSE f.info2
         txIn == NameOutput(info.txid)
         nfu == MakeTx(buildNameFirstupdate(getScript(f.destArg, nextKey),
                                            name, value, info.rand),
                       txIn, nOut2, TWELVE_PLUS_ONE)
         err2 == QueueNfuErr(f.destArg, env2)
         kept == IF f.destArg = NoDestArg THEN 1 ELSE 0
     IN  IF ~QueueNfuBuilds(f.destArg, env2)
           THEN /\ calls' = [calls EXCEPT ![1] =
                     [f EXCEPT !.pc = "failed", !.err = err2]]
                /\ UNCHANGED <<txs, wallet, pool, coins, nameDB, queue, locked,
                               nextKey, chain, last>>
           ELSE /\ CanBuild(1)
                /\ txs' = Append(txs, nfu)
                /\ wallet' = wallet \cup {NextTxid}
                /\ locked' = locked \cup {txIn}
                /\ pool' = IF PoolAdmits(nfu, 0) THEN Append(pool, NextTxid)
                                                 ELSE pool
                /\ queue' = IF err2 = "ok"
                              THEN WriteQueuedTransaction(NextTxid,
                                                          SignedTx(NextTxid))
                              ELSE queue
                /\ nextKey' = IF err2 = "ok" THEN nextKey + kept ELSE nextKey
                /\ calls' = [calls EXCEPT ![1] =
                     [f EXCEPT !.err = IF err2 = "ok" THEN "" ELSE err2,
                               !.pc = IF err2 # "ok" THEN "failed"
                                      ELSE IF first /\ f.isDelegated
                                        THEN "nfu2"
                                      ELSE "done"]]
                /\ UNCHANGED <<coins, nameDB, chain, last>>

NextDeleg ==
  \/ \E name \in ParentNames, valArg \in ValueArgs, allowExisting \in BOOLEAN,
        delegate \in BOOLEAN, destArg \in DestArgs :
       AutoregisterBegin(name, valArg, allowExisting, delegate, destArg)
  \/ \E digit \in Digits : PlanCandidate(digit)
  \/ \E rand \in RandBytes4 : PlanFallback(rand)
  \/ \E env \in WalletEnv, nOut \in 0..1 : IssueNn(env, nOut)
  \* where the wallet puts the name output of a name_firstupdate is read by
  \* no later step of this handler
  \/ \E env2 \in QueueEnv, nOut2 \in {0} : QueueNfu(env2, nOut2)

SpecDeleg == InitDeleg /\ [][NextDeleg]_vars

(***************************************************************************)
(* The deferred queue: queuerawtransaction, dequeuetransaction and         *)
(* listqueuedtransactions.  A hex string decodes to a transaction with its *)
(* witness or does not decode.  The transaction is one the model has (a    *)
(* transaction of the wallet that is not confirmed) or one signed outside  *)
(* of these RPCs: an update of a registered name spending its outpoint.    *)
(* What AcceptToMemoryPool answers in its test run is an input of the      *)
(* call: "valid", "consensus" (TX_CONSENSUS) or "later" (anything else).   *)
(***************************************************************************)
Witnesses == {"sig", "alt"}
BadHex == RawTx(NullTx, "bad")
DecodeHexTx(hex) == hex.wit # "bad"

AcceptResults == {"valid", "consensus", "later"}

\* Transactions signed outside of these RPCs.
ExternalTxs ==
  {MakeTx(buildNameUpdate(ExtDest, name, "v2"), GetName(name).outp, 0,
          SEQUENCE_FINAL) : name \in {n \in Names : existsName(n)}}

\* The hex strings queuerawtransaction is called with, and the transaction
\* each encodes.
HexArgs ==
  {BadHex}
    \cup {RawTx(id, w) : id \in (DOMAIN txs) \ chain, w \in Witnesses}
    \cup {RawTx(NextTxid, "sig")}

TxOf(hex, ext) == IF hex.txid \in DOMAIN txs THEN txs[hex.txid] ELSE ext

InPool(id) == \E i \in 1..Len(pool) : pool[i] = id

\* The test run cannot answer "valid" for a transaction the pool or the
\* chain has, or one the pool does not admit.
AcceptPossible(hex, ext, accept) ==
  accept = "valid" =>
    /\ ~InPool(hex.txid)
    /\ hex.txid \notin chain
    /\ \E limitnamechains \in LimitSettings :
         PoolAdmits(TxOf(hex, ext), limitnamechains)

\* What queuerawtransaction answers: "ok" (it returns the txid) or the error.
\* The variant queues a valid transaction too instead of broadcasting it.
QueueRawResult(hex, accept, env) ==
  IF ~DecodeHexTx(hex) THEN "TX decode failed"
  ELSE IF accept = "valid" THEN "ok"
  ELSE IF accept = "consensus" THEN "Invalid transaction"
  ELSE IF env = "queue" THEN ErrQueue
  ELSE "ok"

QueueRawBroadcasts_Never(hex, accept) == FALSE
QueueRawBroadcasts(hex, accept) == DecodeHexTx(hex) /\ accept = "valid"

queuerawtransaction(hex, ext, accept, env) ==
  /\ QueueRawResult(hex, accept, env) = "ok"
  /\ AcceptPossible(hex, ext, accept)
  /\ hex.txid \in DOMAIN txs \/ (hex.txid = NextTxid /\ CanBuild(1))
  /\ txs' = IF hex.txid \in DOMAIN txs THEN txs ELSE Append(txs, ext)
  /\ pool' = IF QueueRawBroadcasts(hex, accept) THEN Append(pool, hex.txid)
                                                ELSE pool
  /\ queue' = IF QueueRawBroadcasts(hex, accept)
                THEN queue
                ELSE WriteQueuedTransaction(hex.txid, hex)
  /\ last' = Call("queuerawtransaction", "", FALSE, "ok", hex.txid, NoRand,
                  NoOutp, hex.wit)
  /\ UNCHANGED <<wallet, coins, nameDB, locked, nextKey, chain, calls>>

\* What dequeuetransaction answers; the variant never throws.
DequeueResult_AlwaysOk(txid) == "ok"
DequeueResult(txid) ==
  IF txid \in DOMAIN queue THEN "ok" ELSE "Error dequeueing transaction"

dequeuetransaction(txid) ==
  /\ DequeueResult(txid) = "ok"
  /\ queue' = EraseQueuedTransaction(txid)
  /\ last' = Call("dequeuetransaction", "", FALSE, "ok", txid, NoRand, NoOutp,
                  "")
  /\ UNCHANGED <<txs, wallet, pool, coins, nameDB, locked, nextKey, chain,
                 calls>>

\* EncodeHexTx (tx, RPCSerializationFlags ()): -rpcserialversion=0 leaves the
\* witness out.
SerializationFlags == {"witness", "nowitness"}
EncodeHexTx(tx, serializeFlags) ==
  IF serializeFlags = "nowitness" THEN RawTx(tx.txid, "") ELSE tx

\* The object listqueuedtransactions returns: txid -> "transaction".  The
\* variant ignores the serialisation flags of the RPC server.
listqueuedtransactions_NoWitness(serializeFlags) ==
  [txid \in DOMAIN queue |-> EncodeHexTx(queue[txid], "nowitness")]
listqueuedtransactions(serializeFlags) ==
  [txid \in DOMAIN queue |-> EncodeHexTx(queue[txid], serializeFlags)]

NextQueue ==
  \/ Next
  \/ \E hex \in HexArgs, accept \in AcceptResults, env \in {"ok", "queue"} :
       \E ext \in IF hex.txid \in DOMAIN txs THEN {txs[hex.txid]}
                                              ELSE ExternalTxs :
         queuerawtransaction(hex, ext, accept, env)
  \/ \E txid \in DOMAIN txs : dequeuetransaction(txid)

SpecQueue == Init /\ [][NextQueue]_vars

(***************************************************************************)
(* The locks of the handlers.  Each handler is the sequence of what it     *)
(* does with the locks cs_main, mempool.cs and cs_wallet on one path       *)
(* through it: a lock taken, a scope left, the wait of                     *)
(* BlockUntilSyncedToCurrentChain, the read of the ledger in a name        *)
(* lookup, a check that may throw, a read, a mutation.  Two RPC threads    *)
(* run handlers, one instruction a step; a lock is recursive and held by   *)
(* one thread at a time, and a throw leaves every scope.                   *)
(***************************************************************************)
Ins(op, lock, line) == [op |-> op, lock |-> lock, line |-> line]

\* LOCK2 (cs1, cs2) takes cs1, then cs2; the variant takes cs2 first.
LOCK2_SecondFirst(cs1, cs2, line) ==
  <<Ins("acq", cs2, line), Ins("acq", cs1, line)>>
LOCK2(cs1, cs2, line) ==
  <<Ins("acq", cs1, line), Ins("acq", cs2, line)>>

\* existsName (name, chainman): LOCK (cs_main), coinsTip.GetName, return.
\* The variant's lock outlives the call.
ExistsNameIns_LockKept ==
  <<Ins("acq", "cs_main", 360), Ins("exists", "", 363)>>
ExistsNameIns ==
  <<Ins("acq", "cs_main", 360), Ins("exists", "", 363),
    Ins("rel", "cs_main", 360)>>

\* The lambdas of name_autoregister.
IssueNnIns ==
  <<Ins("acq", "cs_wallet", 514), Ins("check", "", 515),
    Ins("mutate", "", 530), Ins("rel", "cs_wallet", 514)>>
QueueNfuIns ==
  <<Ins("acq", "cs_wallet", 547), Ins("check", "", 561),
    Ins("mutate", "", 605), Ins("check", "", 615),
    Ins("rel", "cs_wallet", 547)>>

\* The path taken: allowExisting / allow_active, a txid given, a rand given,
\* operations on the name pending in the pool, delegate, the transaction
\* valid at once.
Path(allow, fixedTxid, fixedRand, pending, delegate, valid) ==
  [allow |-> allow, fixedTxid |-> fixedTxid, fixedRand |-> fixedRand,
   pending |-> pending, delegate |-> delegate, valid |-> valid]
NoPath == Path(FALSE, FALSE, FALSE, FALSE, FALSE, FALSE)

Paths(rpc) ==
  CASE rpc = "name_new" ->
         {Path(a, FALSE, FALSE, FALSE, FALSE, FALSE) : a \in BOOLEAN}
    [] rpc = "name_firstupdate" ->
         {Path(a, x, r, FALSE, FALSE, FALSE) : a, x, r \in BOOLEAN}
    [] rpc = "name_update" ->
         {Path(FALSE, FALSE, FALSE, p, FALSE, FALSE) : p \in BOOLEAN}
    [] rpc = "name_autoregister" ->
         {Path(a, FALSE, FALSE, FALSE, d, FALSE) : a, d \in BOOLEAN}
    [] rpc = "queuerawtransaction" ->
         {Path(FALSE, FALSE, FALSE, FALSE, FALSE, v) : v \in BOOLEAN}
    [] OTHER -> {NoPath}

Rpcs ==
  {"name_list", "name_new", "name_firstupdate", "name_update",
   "name_autoregister", "queuerawtransaction", "dequeuetransaction",
   "listqueuedtransactions", "sendtoname"}

Program(rpc, o) ==
  CASE rpc = "name_list" ->
         <<Ins("sync", "", 228)>>
           \o LOCK2("cs_wallet", "cs_main", 231)
           \o <<Ins("read", "", 234), Ins("rel", "cs_main", 231),
                Ins("rel", "cs_wallet", 231)>>
    [] rpc = "name_new" ->
         <<Ins("check", "", 685)>>
           \o (IF o.allow THEN << >>
                          ELSE ExistsNameIns \o <<Ins("check", "", 688)>>)
           \o <<Ins("sync", "", 694), Ins("acq", "cs_wallet", 696),
                Ins("check", "", 698), Ins("mutate", "", 713),
                Ins("rel", "cs_wallet", 696)>>
    [] rpc = "name_firstupdate" ->
         <<Ins("check", "", 828), Ins("acq", "mempool.cs", 851),
           Ins("check", "", 852), Ins("rel", "mempool.cs", 851)>>
           \o (IF o.allow THEN << >>
                          ELSE ExistsNameIns \o <<Ins("check", "", 857)>>)
           \o (IF o.fixedTxid
                 THEN << >>
                 ELSE <<Ins("sync", "", 872)>>
                        \o LOCK2("cs_wallet", "cs_main", 874)
                        \o <<Ins("read", "", 876), Ins("rel", "cs_main", 874),
                             Ins("rel", "cs_wallet", 874)>>)
           \o <<Ins("check", "", 922), Ins("acq", "cs_main", 928),
                Ins("check", "", 929), Ins("rel", "cs_main", 928)>>
           \o (IF o.fixedRand
                 THEN << >>
                 ELSE <<Ins("acq", "cs_wallet", 937), Ins("check", "", 938),
                        Ins("rel", "cs_wallet", 937)>>)
           \o <<Ins("check", "", 946), Ins("sync", "", 954),
                Ins("acq", "cs_wallet", 956), Ins("check", "", 958),
                Ins("mutate", "", 968), Ins("rel", "cs_wallet", 956)>>
    [] rpc = "name_update" ->
         <<Ins("check", "", 1020), Ins("acq", "mempool.cs", 1041),
           Ins("check", "", 1044), Ins("rel", "mempool.cs", 1041)>>
           \o (IF o.pending
                 THEN << >>
                 ELSE <<Ins("acq", "cs_main", 1062), Ins("exists", "", 1066),
                        Ins("check", "", 1066), Ins("rel", "cs_main", 1062)>>)
           \o <<Ins("sync", "", 1078), Ins("acq", "cs_wallet", 1080),
                Ins("check", "", 1082), Ins("mutate", "", 1091),
                Ins("rel", "cs_wallet", 1080)>>
    [] rpc = "name_autoregister" ->
         <<Ins("check", "", 441)>>
           \o (IF o.allow
                 THEN << >>
                 ELSE <<Ins("acq", "cs_main", 454)>> \o ExistsNameIns
                        \o <<Ins("check", "", 455), Ins("rel", "cs_main", 454)>>)
           \o (IF o.delegate
                 THEN <<Ins("check", "", 473)>> \o ExistsNameIns
                        \o ExistsNameIns
                 ELSE << >>)
           \o <<Ins("sync", "", 511)>>
           \o IssueNnIns
           \o (IF o.delegate THEN IssueNnIns \o QueueNfuIns \o QueueNfuIns
                             ELSE QueueNfuIns)
    [] rpc = "queuerawtransaction" ->
         <<Ins("check", "", 1123), Ins("acq", "cs_main", 1135)>>
           \o (IF o.valid
                 THEN <<Ins("mutate", "", 1143), Ins("rel", "cs_main", 1135)>>
                 ELSE <<Ins("check", "", 1150), Ins("rel", "cs_main", 1135),
                        Ins("acq", "cs_wallet", 1160), Ins("check", "", 1161),
                        Ins("mutate", "", 1161),
                        Ins("rel", "cs_wallet", 1160)>>)
    [] rpc = "dequeuetransaction" ->
         <<Ins("acq", "cs_wallet", 1197), Ins("check", "", 1198),
           Ins("mutate", "", 1198), Ins("rel", "cs_wallet", 1197)>>
    [] rpc = "listqueuedtransactions" ->
         <<Ins("acq", "cs_wallet", 1236), Ins("read", "", 1240),
           Ins("rel", "cs_wallet", 1236)>>
    [] rpc = "sendtoname" ->
         <<Ins("sync", "", 1300), Ins("acq", "cs_wallet", 1302),
           Ins("read", "", 1314), Ins("check", "", 1314),
           Ins("check", "", 1344), Ins("mutate", "", 1350),
           Ins("rel", "cs_wallet", 1302)>>

\* A handler in progress: what it runs, the next instruction, the locks it
\* holds in the order taken, whether it has waited for the chain.
Handler(rpc, o, pc, held, synced) ==
  [rpc |-> rpc, o |-> o, pc |-> pc, held |-> held, synced |-> synced]
NoHandler == Handler("idle", NoPath, 0, << >>, FALSE)

Holds(f, lock) == \E i \in 1..Len(f.held) : f.held[i] = lock

\* The scope of the lock taken last for this mutex ends.
Release(held, lock) ==
  LET last_i == CHOOSE i \in 1..Len(held) :
                  /\ held[i] = lock
                  /\ \A j \in (i + 1)..Len(held) : held[j] # lock
  IN  SubSeq(held, 1, last_i - 1) \o SubSeq(held, last_i + 1, Len(held))

InitLocks ==
  /\ InitState
  /\ calls = [t \in Threads |-> NoHandler]

HandlerBegin(t, rpc, o) ==
  /\ calls[t] = NoHandler
  /\ calls' = [calls EXCEPT ![t] = Handler(rpc, o, 1, << >>, FALSE)]
  /\ UNCHANGED <<txs, wallet, pool, coins, nameDB, queue, locked, nextKey,
                 chain, last>>

HandlerStep(t) ==
  /\ calls[t] # NoHandler
  /\ LET f == calls[t]
         prog == Program(f.rpc, f.o)
         ins == prog[f.pc]
         held == CASE ins.op = "acq" -> Append(f.held, ins.lock)
                   [] ins.op = "rel" -> Release(f.held, ins.lock)
                   [] OTHER -> f.held
         synced == f.synced \/ ins.op = "sync"
     IN  /\ ins.op = "acq"
              => \A u \in Threads \ {t} : ~Holds(calls[u], ins.lock)
         /\ calls' = [calls EXCEPT ![t] =
                        IF f.pc = Len(prog)
                          THEN NoHandler
                          ELSE Handler(f.rpc, f.o, f.pc + 1, held, synced)]
  /\ UNCHANGED <<txs, wallet, pool, coins, nameDB, queue, locked, nextKey,
                 chain, last>>

HandlerThrow(t) ==
  /\ calls[t] # NoHandler
  /\ Program(calls[t].rpc, calls[t].o)[calls[t].pc].op = "check"
  /\ calls' = [calls EXCEPT ![t] = NoHandler]
  /\ UNCHANGED <<txs, wallet, pool, coins, nameDB, queue, locked, nextKey,
                 chain, last>>

NextLocks ==
  \E t \in Threads :
    \/ \E rpc \in Rpcs : \E o \in Paths(rpc) : HandlerBegin(t, rpc, o)
    \/ HandlerStep(t)
    \/ HandlerThrow(t)

SpecLocks == InitLocks /\ [][NextLocks]_vars

(***************************************************************************)
(* A wallet with a name_new that other software built with the wallet's    *)
(* key: its commitment is made with a rand of 19 bytes.                    *)
(***************************************************************************)
ShortCommit ==
  MakeTx(buildNameNew(KeyDest(1), "d/a", ShortRand), NoOutp, 1, SEQUENCE_FINAL)

InitRand ==
  /\ txs = <<InitialTxs[1], ShortCommit>>
  /\ wallet = {1, 2}
  /\ pool = << >>
  /\ coins = { <<1, 0>>, <<1, 1>>, <<2, 0>>, <<2, 1>> }
  /\ nameDB = [n \in Names |->
                 IF n = "d/b"
                   THEN [present |-> TRUE, value |-> "v1", outp |-> <<1, 0>>,
                         expired |-> FALSE]
                   ELSE NoData]
  /\ queue = NoQueue
  /\ locked = {}
  /\ nextKey = 2
  /\ chain = {1, 2}
  /\ last = NoCall
  /\ calls = NoCalls

SpecRand == InitRand /\ [][Next]_vars

(***************************************************************************)
(* Properties.  A property of a call that throws is stated on the handler's *)
(* answer in every reachable state and for every argument; well-formed     *)
(* arguments are a name of at most 255 bytes, a value of at most 520 bytes *)
(* and a rand of at most 20 bytes.                                          *)
(***************************************************************************)
ValidValueArgs == {v \in ValueArgs : v = NullArg \/ ValueSize(v) <= MAX_VALUE_LENGTH_UI}
ValidRandArgs == {r \in RandArgs : r = NoRand \/ RandSize(r) <= 20}

\* The ledger has an unexpired record of the name; the pool holds a
\* registration of the name.
HasUnexpiredRecord(name) == nameDB[name].present /\ ~nameDB[name].expired
PoolHasRegistration(name) ==
  \E i \in 1..Len(pool) :
     txs[pool[i]].op = "name_firstupdate" /\ txs[pool[i]].name = name

\* Some step of the handler for the given arguments, whatever the value and
\* the destination are and with a wallet that can send.
NewSteps(name, allowExisting) ==
  \E destArg \in DestArgs, env \in WalletEnv, nOut \in 0..1 :
    name_new(name, allowExisting, destArg, env, nOut)
AutoregisterSteps(name, allowExisting) ==
  \E destArg \in DestArgs, env \in WalletEnv :
    /\ WalletErr(destArg, env) = "ok"
    /\ \E valArg \in ValidValueArgs, nOut \in 0..1, env2 \in QueueEnv,
          nOut2 \in 0..1 :
         name_autoregister(name, valArg, allowExisting, destArg, env, nOut,
                           env2, nOut2)
FirstupdateSteps(name, randArg, txArg, allow_active, prevTxid) ==
  \E destArg \in DestArgs, env \in WalletEnv :
    /\ WalletErr(destArg, env) = "ok"
    /\ \E valArg \in ValidValueArgs, nOut \in 0..1 :
         name_firstupdate(name, randArg, txArg, valArg, allow_active, destArg,
                          prevTxid, env, nOut)

\* C1: every name_firstupdate transaction built by name_firstupdate or by
\* name_autoregister spends the name output of a name_new whose hash is
\* Hash160 of the rand and the name the name_firstupdate carries; none is
\* built on a name_update, on a name_firstupdate or on a name_new for another
\* (rand, name).
C1_RevealSpendsMatchingCommit ==
  \A id \in DOMAIN txs :
    txs[id].op = "name_firstupdate" =>
      LET prev == txs[id].vin
      IN  /\ IsTx(prev[1])
          /\ prev = NameOutput(prev[1])
          /\ txs[prev[1]].op = "name_new"
          /\ txs[prev[1]].hash = Hash160(txs[id].rand, txs[id].name)

\* name_firstupdate has broadcast a name_firstupdate on a name_new, with a
\* name_update output in the coin set and another name_new in the wallet.
C1_Witness ==
  /\ last.rpc = "name_firstupdate"
  /\ last.err = "ok"
  /\ \E i \in 1..Len(pool) : pool[i] = last.tx
  /\ txs[last.prev[1]].op = "name_new"
  /\ \E c \in coins : txs[c[1]].op = "name_update" /\ isNameScript(c)
  /\ \E id \in wallet : txs[id].op = "name_new" /\ id # last.prev[1]

\* C2: name_new and name_autoregister called without allowExisting for a name
\* with an unexpired record in the ledger throw "this name exists already",
\* and the call changes nothing (no step of the handler is enabled); with
\* allowExisting the check is skipped: the error is not thrown.
C2_CommitOnExistingName ==
  \A name \in Names :
    HasUnexpiredRecord(name) =>
      /\ ~ENABLED NewSteps(name, FALSE)
      /\ ~ENABLED AutoregisterSteps(name, FALSE)
      /\ \A destArg \in DestArgs, env \in WalletEnv :
           /\ NewResult(name, FALSE, destArg, env).err
                = "this name exists already"
           /\ NewResult(name, TRUE, destArg, env).err = WalletErr(destArg, env)
           /\ \A valArg \in ValidValueArgs :
                /\ AutoregisterResult(name, valArg, FALSE, destArg, env).err
                     = "this name exists already"
                /\ AutoregisterResult(name, valArg, TRUE, destArg, env).err
                     = WalletErr(destArg, env)

\* A name_new with allowExisting has been sent for a name that exists, and
\* the same call without allowExisting throws.
C2_Witness ==
  /\ last.rpc = "name_new"
  /\ last.err = "ok"
  /\ existsName(last.name)
  /\ NewResult(last.name, FALSE, NoDestArg, "ok").err = "this name exists already"
  /\ AutoregisterResult(last.name, "v2", FALSE, NoDestArg, "ok").err
       = "this name exists already"

\* The previous output name_firstupdate resolves from a txid: the name output
\* of that transaction, when the coin set has it.
ResolvesPrev(prevTxid) ==
  /\ IsTx(prevTxid)
  /\ NameOutput(prevTxid) \in coins

\* C3: name_firstupdate throws "previous tx is not name_new" whenever the
\* previous output it resolves carries an operation other than name_new,
\* with rand and txid given, with the txid alone or with neither.
C3_PriorOpWrongType ==
  \A name \in Names, randArg \in ValidRandArgs, txArg \in TxidArgs,
     allow_active \in BOOLEAN :
    \A prevTxid \in ScanPrevTxid(name, randArg, txArg) :
      ( /\ FirstupdateEarlyErr(name, randArg, NullArg, allow_active) = "ok"
        /\ ResolvesPrev(prevTxid)
        /\ txs[prevTxid].op # "name_new" )
      => FirstupdateResult(name, randArg, txArg, NullArg, allow_active,
                           NoDestArg, prevTxid, "ok").err
           = "previous tx is not name_new"

\* C4: name_firstupdate throws "rand value is wrong" (rand given) or
\* "generated rand for txid does not match" (rand derived) whenever the
\* previous output is a name_new and Hash160 of the rand in hand and the name
\* differs from the hash stored in it, and the call changes nothing.
C4_SecretMismatch ==
  \A name \in Names, randArg \in ValidRandArgs, txArg \in TxidArgs,
     allow_active \in BOOLEAN :
    \A prevTxid \in ScanPrevTxid(name, randArg, txArg) :
      ( /\ FirstupdateEarlyErr(name, randArg, NullArg, allow_active) = "ok"
        /\ ResolvesPrev(prevTxid)
        /\ txs[prevTxid].op = "name_new"
        /\ randArg # NoRand \/ Owned(txs[prevTxid].dest)
        /\ Hash160(IF randArg # NoRand
                     THEN randArg
                     ELSE DerivedRand(txs[prevTxid].dest.k, name),
                   name) # txs[prevTxid].hash )
      => /\ ~ENABLED FirstupdateSteps(name, randArg, txArg, allow_active,
                                       prevTxid)
         /\ \A valArg \in ValidValueArgs, destArg \in DestArgs,
               env \in WalletEnv :
              FirstupdateResult(name, randArg, txArg, valArg, allow_active,
                                destArg, prevTxid, env).err
                = IF randArg # NoRand
                    THEN "rand value is wrong"
                    ELSE "generated rand for txid does not match"

\* A name_new of the wallet is confirmed and unspent, its name is free, and
\* name_firstupdate called with its txid and another rand, or with its txid
\* and another name, throws.
C4_Witness ==
  \E id \in wallet :
    /\ txs[id].op = "name_new"
    /\ NameOutput(id) \in coins
    /\ id > InitTxs
    /\ FirstupdateResult(txs[id].hash.n, WrongRand, id, "v2", FALSE, NoDestArg,
                         id, "ok").err = "rand value is wrong"
    /\ \E other \in Names \ {txs[id].hash.n} :
         FirstupdateResult(other, NoRand, id, "v2", TRUE, NoDestArg, id,
                           "ok").err = "generated rand for txid does not match"

\* C5: name_firstupdate throws "this name is already being registered"
\* whenever the pool holds a registration of the name, whatever the other
\* arguments are, allow_active included, and the call changes nothing.
C5_NameAlreadyRegistering ==
  \A name \in Names :
    PoolHasRegistration(name) =>
      \A randArg \in ValidRandArgs, txArg \in TxidArgs,
         allow_active \in BOOLEAN :
        \A prevTxid \in ScanPrevTxid(name, randArg, txArg) :
          /\ ~ENABLED FirstupdateSteps(name, randArg, txArg, allow_active,
                                       prevTxid)
          /\ \A valArg \in ValidValueArgs, destArg \in DestArgs,
                env \in WalletEnv :
               FirstupdateResult(name, randArg, txArg, valArg, allow_active,
                                 destArg, prevTxid, env).err
                 = "this name is already being registered"

\* name_firstupdate has put a registration into the pool, a second name_new
\* for the name is confirmed, and name_firstupdate on it throws even with
\* allow_active.
C5_Witness ==
  /\ last.rpc = "name_firstupdate"
  /\ last.err = "ok"
  /\ PoolHasRegistration(last.name)
  /\ \E id \in wallet :
       /\ txs[id].op = "name_new"
       /\ txs[id].hash.n = last.name
       /\ NameOutput(id) \in coins
       /\ id # last.prev[1]
       /\ FirstupdateResult(last.name, txs[id].hash.r, id, "v2", TRUE,
                            NoDestArg, id, "ok").err
            = "this name is already being registered"

\* C6: name_firstupdate for a name with an unexpired record in the ledger
\* (and no registration in the pool, which is C5) throws "this name is
\* already active" unless allow_active is set; with allow_active the check
\* is skipped and the call goes on to the previous output: its answer is the
\* one of the checks on the previous output and of the send.
C6_NameAlreadyActive ==
  \A name \in Names :
    (HasUnexpiredRecord(name) /\ ~PoolHasRegistration(name)) =>
      \A randArg \in ValidRandArgs, txArg \in TxidArgs :
        \A prevTxid \in ScanPrevTxid(name, randArg, txArg) :
          /\ ~ENABLED FirstupdateSteps(name, randArg, txArg, FALSE, prevTxid)
          /\ \A valArg \in ValidValueArgs, destArg \in DestArgs,
                env \in WalletEnv :
               /\ FirstupdateResult(name, randArg, txArg, valArg, FALSE,
                                    destArg, prevTxid, env).err
                    = "this name is already active"
               /\ FirstupdateResult(name, randArg, txArg, valArg, TRUE,
                                    destArg, prevTxid, env).err
                    = IF FirstupdatePrevErr(name, randArg, prevTxid) # "ok"
                        THEN FirstupdatePrevErr(name, randArg, prevTxid)
                        ELSE WalletErr(destArg, env)

\* name_firstupdate with allow_active has built a name_firstupdate for a name
\* that exists, and the same call without allow_active throws.
C6_Witness ==
  /\ last.rpc = "name_firstupdate"
  /\ last.err = "ok"
  /\ HasUnexpiredRecord(last.name)
  /\ txs[last.prev[1]].op = "name_new"
  /\ FirstupdateEarlyErr(last.name, last.rand, "v2", FALSE)
       = "this name is already active"

\* The name_new transactions, with the name and the rand each commits to
\* (what name_new returned for it).
Commits == {id \in DOMAIN txs : txs[id].op = "name_new"}
CommitName(id) == txs[id].hash.n
CommitRand(id) == txs[id].hash.r

\* A block that confirms a name_firstupdate leaves the name with an
\* unexpired record.
ConfirmedRevealExists ==
  \A id \in DOMAIN txs :
    (id \notin chain /\ id \in chain' /\ txs[id].op = "name_firstupdate")
      => nameDB'[txs[id].name].present /\ ~nameDB'[txs[id].name].expired

\* name_firstupdate called with the rand and the txid of the name_new, for
\* each value, each destination and each behaviour of the wallet.
RevealOf(id, allow_active) ==
  {FirstupdateResult(CommitName(id), CommitRand(id), id, valArg, allow_active,
                     destArg, id, env).err :
     valArg \in ValidValueArgs, destArg \in DestArgs, env \in {"ok"}}

\* C7, as stated: for a name without a registration, after name_new has
\* returned (txid, rand), name_firstupdate called with that rand and txid
\* and a valid value succeeds; once its transaction confirms the name exists.
C7_RevealAfterCommit ==
  /\ [](\A id \in Commits :
          (id \in wallet /\ ~HasUnexpiredRecord(CommitName(id)))
            => RevealOf(id, FALSE) = {"ok"})
  /\ [][ConfirmedRevealExists]_vars

\* C7, amended: the name_new has to be confirmed and its name output unspent,
\* and the name must have no registration in the pool either; then
\* name_firstupdate with that rand and txid and a valid value throws none of
\* the errors on the previous output and succeeds when the wallet can send.
\* While the name_new is unconfirmed the call throws "previous txid not
\* found".  Once the name_firstupdate confirms the name exists.
C7_RevealAfterConfirmedCommit ==
  /\ [](\A id \in Commits :
          (~HasUnexpiredRecord(CommitName(id))
             /\ ~PoolHasRegistration(CommitName(id)))
            => /\ NameOutput(id) \in coins =>
                    \A valArg \in ValidValueArgs, destArg \in DestArgs,
                       env \in WalletEnv :
                      FirstupdateResult(CommitName(id), CommitRand(id), id,
                                        valArg, FALSE, destArg, id, env).err
                        = WalletErr(destArg, env)
               /\ id \notin chain =>
                    RevealOf(id, FALSE) = {"previous txid not found"})
  /\ [][ConfirmedRevealExists]_vars

\* A name_new built by a call has confirmed, the name_firstupdate on it has
\* confirmed, and the name exists with that output.
C7_Witness ==
  \E id \in chain :
    /\ txs[id].op = "name_firstupdate"
    /\ txs[id].vin[1] > InitTxs
    /\ txs[id].vin[1] \in wallet
    /\ txs[id].rand = CommitRand(txs[id].vin[1])
    /\ HasUnexpiredRecord(txs[id].name)
    /\ nameDB[txs[id].name].outp = NameOutput(id)

\* The pending operations on a name, by position in the pool.
PendingOn(name) ==
  {i \in 1..Len(pool) :
     /\ txs[pool[i]].op \in {"name_firstupdate", "name_update"}
     /\ txs[pool[i]].name = name}
LastPendingOn(name) ==
  pool[CHOOSE i \in PendingOn(name) : \A j \in PendingOn(name) : j <= i]

\* C8: name_update throws the chain limit error exactly when the number of
\* pending operations on the name is at least chainLimit, the setting
\* converted to unsigned (a negative setting becomes a limit of 2^31 or
\* more, above every pool size); with one operation fewer than chainLimit
\* pending the check passes, and the update of a name that can be updated is
\* sent when the wallet can send.
C8_ChainLimit ==
  \A name \in Names, setting \in LimitSettings :
    LET pendingOps == Cardinality(PendingOn(name))
        exceeded == setting >= 0 /\ pendingOps >= setting
    IN  \A valArg \in ValidValueArgs, destArg \in DestArgs, env \in WalletEnv :
          LET err == UpdateResult(name, valArg, destArg, setting, env).err
          IN  /\ exceeded <=> err = ErrChainLimit
              /\ ( /\ pendingOps + 1 = setting
                   /\ pendingOps > 0 \/ HasUnexpiredRecord(name) )
                 => err = WalletErr(destArg, env)

\* Two operations on a name are pending, the second was sent by name_update
\* when one was pending, and name_update with a limit of 2 throws.
C8_Witness ==
  /\ last.rpc = "name_update"
  /\ last.err = "ok"
  /\ Cardinality(PendingOn(last.name)) = 2
  /\ pool[Len(pool)] = last.tx
  /\ UpdateResult(last.name, NullArg, NoDestArg, 2, "ok").err = ErrChainLimit
  /\ UpdateResult(last.name, NullArg, NoDestArg, -1, "ok").err = "ok"

\* C9: with an operation on the name pending, name_update spends the name
\* output of the most recent one, not the outpoint of the ledger record;
\* without one it spends the outpoint of the ledger record.  The transaction
\* it builds spends that outpoint.
C9_UpdateSpendsLastPending ==
  /\ \A name \in Names, valArg \in ValidValueArgs, destArg \in DestArgs,
        setting \in LimitSettings, env \in WalletEnv :
       LET r == UpdateResult(name, valArg, destArg, setting, env)
       IN  r.err = "ok" =>
             IF PendingOn(name) # {}
               THEN /\ r.prev = NameOutput(LastPendingOn(name))
                    /\ r.prev # nameDB[name].outp
               ELSE r.prev = nameDB[name].outp
  /\ (last.rpc = "name_update" /\ last.err = "ok")
       => txs[last.tx].vin = last.prev

\* The second of two name_update calls made before either confirms: it spends
\* the output of the first, which is not the ledger's.
C9_Witness ==
  /\ last.rpc = "name_update"
  /\ last.err = "ok"
  /\ txs[last.prev[1]].op = "name_update"
  /\ last.prev[1] \notin chain
  /\ \E i \in 1..Len(pool) : pool[i] = last.prev[1]
  /\ HasUnexpiredRecord(last.name)
  /\ last.prev # nameDB[last.name].outp
  /\ txs[last.tx].vin = last.prev

\* C10: name_update called without a value sends the value of the output it
\* spends: the one of the most recent pending operation on the name, or the
\* one of the ledger record when none is pending; called with a value it
\* sends that value.  The transaction it builds carries that value.
C10_UpdateDefaultValue ==
  /\ \A name \in Names, valArg \in ValidValueArgs, destArg \in DestArgs,
        setting \in LimitSettings, env \in WalletEnv :
       LET r == UpdateResult(name, valArg, destArg, setting, env)
       IN  r.err = "ok" =>
             r.value = IF valArg # NullArg THEN valArg
                       ELSE IF PendingOn(name) # {}
                         THEN txs[LastPendingOn(name)].value
                       ELSE nameDB[name].value
  /\ (last.rpc = "name_update" /\ last.err = "ok")
       => txs[last.tx].value = last.value

\* name_update without a value has sent the value of a pending name_update,
\* which is not the value of the ledger record.
C10_Witness ==
  /\ last.rpc = "name_update"
  /\ last.err = "ok"
  /\ last.isDefaultVal
  /\ last.prev[1] \notin chain
  /\ txs[last.tx].value = txs[last.prev[1]].value
  /\ HasUnexpiredRecord(last.name)
  /\ txs[last.tx].value # nameDB[last.name].value

\* Some step of name_update for the given name and setting, whatever the
\* value and the destination are and with a wallet that can send.
UpdateSteps(name, setting) ==
  \E destArg \in DestArgs, env \in WalletEnv :
    /\ WalletErr(destArg, env) = "ok"
    /\ \E valArg \in ValidValueArgs, nOut \in 0..1 :
         name_update(name, valArg, destArg, setting, env, nOut)

\* C11: name_update for a name with no operation pending in the pool and
\* with no ledger record, or with an expired one, throws "this name can not
\* be updated" (the chain limit check, which comes first, passing: the limit
\* is not 0), and the call changes nothing: no transaction is built or sent.
C11_NameNotRegistered ==
  \A name \in Names, setting \in LimitSettings \ {0} :
    (PendingOn(name) = {} /\ ~HasUnexpiredRecord(name)) =>
      /\ ~ENABLED UpdateSteps(name, setting)
      /\ \A valArg \in ValidValueArgs, destArg \in DestArgs, env \in WalletEnv :
           UpdateResult(name, valArg, destArg, setting, env).err
             = "this name can not be updated"

\* The record of a name has expired after a name_update of it confirmed, no
\* operation on it is pending, and name_update throws; so it does for a name
\* that never had a record.
C11_Witness ==
  \E name \in Names :
    /\ nameDB[name].present
    /\ nameDB[name].expired
    /\ nameDB[name].outp[1] > InitTxs
    /\ PendingOn(name) = {}
    /\ UpdateResult(name, "v2", NoDestArg, 2, "ok").err
         = "this name can not be updated"
    /\ \E other \in Names :
         /\ ~nameDB[other].present
         /\ UpdateResult(other, NullArg, NoDestArg, -1, "ok").err
              = "this name can not be updated"

\* C12: whenever a thread's name_update sends its transaction, the number of
\* operations on the name pending in the pool at that moment is below
\* chainLimit: no other call has sent for the name since the thread's check.
C12_NoSubmissionAtChainLimit ==
  [][\A t \in Threads :
       (calls[t].pc = "send" /\ calls'[t].pc = "idle" /\ Len(txs') > Len(txs))
         => ~( /\ calls[t].limit >= 0
               /\ Cardinality(PendingOn(calls[t].name)) >= calls[t].limit )]_vars

\* The delegation block has finished: the call is past its two loops.
Planned(f) == f.isDelegated /\ f.pc \notin {"idle", "plan", "fallback"}

\* C13: when the delegation block of name_autoregister has finished, the
\* delegated name is at most MAX_NAME_LENGTH bytes long, the last existsName
\* call was made on it and answered that it does not exist, and the ledger
\* has no unexpired record of it; for every name, one of maximal length
\* included, and every set of names taken.
C13_DelegatedNameFitsAndIsUnused ==
  LET f == calls[1]
  IN  Planned(f) =>
        /\ DNameSize(f.delegatedName) <= MAX_NAME_LENGTH
        /\ f.lastCheck.made
        /\ f.lastCheck.name = f.delegatedName
        /\ ~f.lastCheck.exists
        /\ ~( /\ f.delegatedName \in DOMAIN nameDB
              /\ nameDB[f.delegatedName].present
              /\ ~nameDB[f.delegatedName].expired )

\* A delegating call for a name of 255 bytes has run to its end with one
\* fallback name taken: its delegated name is the other fallback name.
C13_Witness ==
  LET f == calls[1]
  IN  /\ f.pc = "done"
      /\ f.isDelegated
      /\ DNameSize(f.name) = MAX_NAME_LENGTH
      /\ FallbackName("dd", <<0, 0, 0, 0>>) \in DOMAIN nameDB
      /\ f.delegatedName = FallbackName("dd", <<247, 245, 253, 189>>)

\* The main label after "dd", with the digits given, and the fallback form.
DdExample(digits) == DName("dd", "/example", digits, << >>)
IsFallbackForm(n) == n.label = "/" /\ n.suffix = << >> /\ Len(n.hex) = 4
DigitStrings == UNION {[1..k -> 0..9] : k \in 1..2}

\* A turn of the do-while loop after the first one tries the candidate of
\* the turn before with one decimal digit appended.
RetryAppendsOneDigit ==
  ( /\ calls[1].pc = "plan"
    /\ calls'[1].pc \in {"plan", "fallback"}
    /\ calls[1].lastCheck.made )
  => \E d \in 0..9 :
       calls'[1].delegatedName =
         [calls[1].delegatedName EXCEPT !.suffix = Append(@, d)]

\* C14, as stated: delegating "d/example" while "dd/example" exists gives one
\* of "dd/example1" .. "dd/example9" or a fallback name, never "dd/example";
\* each retry appends one decimal digit to the candidate before.
C14_OneDigitOrFallback ==
  /\ [](LET f == calls[1]
        IN  ( /\ Planned(f)
              /\ f.name = DName("d", "/example", << >>, << >>)
              /\ DdExample(<< >>) \in DOMAIN nameDB )
            => /\ f.delegatedName # DdExample(<< >>)
               /\ \/ f.delegatedName \in {DdExample(<<d>>) : d \in 1..9}
                  \/ IsFallbackForm(f.delegatedName))
  /\ [][RetryAppendsOneDigit]_vars

\* C14, amended: the result is "dd/example" followed by one or more decimal
\* digits, 0 included, (as many as candidates were found taken) or a fallback
\* name, never "dd/example"; each retry appends one decimal digit to the
\* candidate before.
C14_DigitsOrFallback ==
  /\ [](LET f == calls[1]
        IN  ( /\ Planned(f)
              /\ f.name = DName("d", "/example", << >>, << >>)
              /\ DdExample(<< >>) \in DOMAIN nameDB )
            => /\ f.delegatedName # DdExample(<< >>)
               /\ \/ /\ f.delegatedName \in {DdExample(s) : s \in DigitStrings}
                     /\ \A k \in 0..(Len(f.delegatedName.suffix) - 1) :
                          DdExample(SubSeq(f.delegatedName.suffix, 1, k))
                            \in DOMAIN nameDB
                  \/ IsFallbackForm(f.delegatedName))
  /\ [][RetryAppendsOneDigit]_vars

\* "dd/example" and "dd/example1" are taken and the call has ended with the
\* delegated name "dd/example10".
C14_Witness ==
  LET f == calls[1]
  IN  /\ f.pc = "done"
      /\ f.name = DName("d", "/example", << >>, << >>)
      /\ DdExample(<< >>) \in DOMAIN nameDB
      /\ DdExample(<<1>>) \in DOMAIN nameDB
      /\ f.delegatedName = DdExample(<<1, 0>>)

\* C15: a delegating call that has succeeded has built, in this order, the
\* name_new for the name, the name_new for the delegated name, the
\* name_firstupdate of the name, with the import value and spending the first
\* name_new, and the name_firstupdate of the delegated name, with the caller's
\* value and spending the second; both name_new are in the pool and both
\* name_firstupdate in the queue.  A call that does not delegate has built one
\* name_new and queued one name_firstupdate with the caller's value.
C15_AutoregisterSequence ==
  LET f == calls[1]
      IsNew(id, name) ==
        /\ txs[id].op = "name_new"
        /\ txs[id].hash = Hash160(txs[id].hash.r, name)
      IsReveal(id, name, value, of) ==
        /\ txs[id].op = "name_firstupdate"
        /\ txs[id].name = name
        /\ txs[id].value = value
        /\ txs[id].rand = txs[of].hash.r
        /\ txs[id].vin = <<of, txs[of].nOut>>
  IN  f.pc = "done" =>
        IF f.isDelegated
          THEN /\ Len(txs) = 4
               /\ IsNew(1, f.name)
               /\ IsNew(2, f.delegatedName)
               /\ IsReveal(3, f.name,
                           [text |-> "{\"import\":\"%s\"}",
                            import |-> f.delegatedName], 1)
               /\ IsReveal(4, f.delegatedName, f.value, 2)
               /\ pool = <<1, 2>>
               /\ DOMAIN queue = {3, 4}
          ELSE /\ Len(txs) = 2
               /\ IsNew(1, f.name)
               /\ IsReveal(2, f.name, f.value, 1)
               /\ pool = <<1>>
               /\ DOMAIN queue = {2}

\* A delegating call with a value has succeeded, with a digit appended to
\* the delegated name.
C15_Witness ==
  LET f == calls[1]
  IN  /\ f.pc = "done"
      /\ f.isDelegated
      /\ f.value.text = "v2"
      /\ Len(f.delegatedName.suffix) = 1
      /\ Len(txs) = 4
      /\ DOMAIN queue = {3, 4}


(***************************************************************************)
(* The deferred queue.                                                     *)
(***************************************************************************)
\* The listing has the entry id -> tx, in the serialisation of the RPC.
Listed(id, tx) ==
  \A flags \in SerializationFlags :
    /\ id \in DOMAIN listqueuedtransactions(flags)
    /\ listqueuedtransactions(flags)[id] = EncodeHexTx(tx, flags)

\* The step is dequeuetransaction (id), or queuerawtransaction of a
\* transaction with the identity id.
DequeueOf(id) == last'.rpc = "dequeuetransaction" /\ last'.tx = id
EnqueueOf(id) == last'.rpc = "queuerawtransaction" /\ last'.tx = id

\* The listing keeps the entries it has.
ListingKeeps(exempt(_)) ==
  \A id \in DOMAIN queue :
    exempt(id) \/ Listed(id, queue[id])'

\* C16 as stated: for every transaction tx with identity id, a successful
\* queuerawtransaction (it returns id) is followed by a listqueuedtransactions
\* that contains the entry id -> tx, as long as no dequeuetransaction (id)
\* happens in between.
C16_EnqueueThenListed ==
  /\ [](last.rpc = "queuerawtransaction"
          => Listed(last.tx, RawTx(last.tx, last.value)))
  /\ [][ListingKeeps(DequeueOf)]_vars

\* C16 amended: a successful queuerawtransaction of a transaction that the
\* call does not broadcast is followed by a listqueuedtransactions that
\* contains the entry id -> tx, as long as neither dequeuetransaction (id) nor
\* a queuerawtransaction of another transaction with the identity id happens
\* in between; a call that broadcasts the transaction (it is valid at once)
\* returns id too and leaves the queue as it is.
C16_EnqueueWithoutBroadcastThenListed ==
  /\ [][\A id \in 1..(InitTxs + MaxTx), w \in Witnesses :
          (EnqueueOf(id) /\ last'.value = w)
            => IF pool' = pool
                 THEN Listed(id, RawTx(id, w))'
                 ELSE pool' = Append(pool, id) /\ queue' = queue]_vars
  /\ [][ListingKeeps(LAMBDA id : DequeueOf(id) \/ EnqueueOf(id))]_vars

\* Two entries are listed, the one the last call queued with the witness
\* "alt" among them.
C16_Witness ==
  /\ last.rpc = "queuerawtransaction"
  /\ ~InPool(last.tx)
  /\ last.value = "alt"
  /\ Listed(last.tx, RawTx(last.tx, "alt"))
  /\ Cardinality(DOMAIN queue) = 2

\* The txids dequeuetransaction is called with.
DequeueArgs == 1..(InitTxs + MaxTx)

\* C17: dequeuetransaction (id) on an id that is in the queue removes exactly
\* that entry and leaves every other entry as it is; on an id that is not in
\* the queue it throws "Error dequeueing transaction" and the queue stays as
\* it is (the call is no step).
C17_DequeueRemovesExactlyOne ==
  /\ [](\A id \in DequeueArgs :
          id \notin DOMAIN queue
            => /\ DequeueResult(id) = "Error dequeueing transaction"
               /\ ~ENABLED dequeuetransaction(id))
  /\ [][\A id \in DequeueArgs :
          DequeueOf(id)
            => /\ id \in DOMAIN queue
               /\ DOMAIN queue' = DOMAIN queue \ {id}
               /\ \A other \in DOMAIN queue' : queue'[other] = queue[other]
               /\ UNCHANGED <<txs, wallet, pool, coins, nameDB, locked,
                              nextKey, chain>>]_vars

\* One of two entries was dequeued; the other one is still listed.
C17_Witness ==
  /\ last.rpc = "dequeuetransaction"
  /\ last.tx \notin DOMAIN queue
  /\ Cardinality(DOMAIN queue) = 1
  /\ \A id \in DOMAIN queue : Listed(id, SignedTx(id))

\* C18: the queue never holds two entries with the same identity: every entry
\* is kept under the identity of its transaction, and a queuerawtransaction
\* that queues a transaction whose identity is already queued leaves the
\* number of entries and the other entries as they are, the entry of that
\* identity holds the transaction just queued, and nothing changes when that
\* is the transaction the entry held.
C18_QueueKeysUnique ==
  /\ [](\A id \in DOMAIN queue : queue[id].txid = id)
  /\ [][\A id \in DOMAIN queue, w \in Witnesses :
          (EnqueueOf(id) /\ last'.value = w /\ pool' = pool)
            => /\ DOMAIN queue' = DOMAIN queue
               /\ Cardinality(DOMAIN queue') = Cardinality(DOMAIN queue)
               /\ queue'[id] = RawTx(id, w)
               /\ \A other \in DOMAIN queue \ {id} :
                    queue'[other] = queue[other]
               /\ queue[id] = RawTx(id, w) => queue' = queue]_vars

\* The name_firstupdate that name_autoregister queued was queued once more
\* with another witness: the one entry of its identity holds the later one.
C18_Witness ==
  /\ last.rpc = "queuerawtransaction"
  /\ last.value = "alt"
  /\ last.tx \in DOMAIN queue
  /\ txs[last.tx].op = "name_firstupdate"
  /\ txs[last.tx].vin \in locked
  /\ queue[last.tx] = RawTx(last.tx, "alt")
  /\ Cardinality(DOMAIN queue) = 1

\* C19: an entry of the queue stays in it, as it is, over every step of
\* name_new, name_firstupdate, name_update, name_autoregister, of
\* queuerawtransaction for another identity, and over every change of the
\* chain or the pool; only dequeuetransaction of its identity removes it, and
\* only queuerawtransaction of its identity puts another transaction in its
\* place.
C19_QueueEntriesStay ==
  [][\A id \in DOMAIN queue :
       /\ DequeueOf(id) \/ id \in DOMAIN queue'
       /\ DequeueOf(id) \/ EnqueueOf(id) \/ queue'[id] = queue[id]]_vars

\* An entry queued before a name_update was built is listed after it.
C19_Witness ==
  /\ last.rpc = "name_update"
  /\ \E id \in DOMAIN queue : id < last.tx /\ Listed(id, queue[id])

\* C20: in every reachable state every coin that a transaction in the queue,
\* not broadcast yet, takes as its input is locked in the wallet, whether
\* name_autoregister or queuerawtransaction queued the transaction.
C20_QueuedInputsLocked ==
  \A id \in DOMAIN queue :
    (~InPool(id) /\ id \notin chain /\ txs[id].vin # NoOutp)
      => txs[id].vin \in locked

\* C21: the locks placed on the coins of a queued transaction are released
\* when the transaction is dequeued: after dequeuetransaction (id) has
\* succeeded no input of id is locked.
C21_DequeueReleasesLocks ==
  last.rpc = "dequeuetransaction" => txs[last.tx].vin \notin locked

\* C22: a call that returns a failure leaves the transactions in the pool,
\* the transactions recorded in the wallet, the queue, the locked coins and
\* the destinations kept as they were before the call; a failing
\* name_autoregister has sent no name_new and queued no name_firstupdate.
C22_FailureLeavesNoTrace ==
  [][(last'.err \notin {"ok", ""})
       => UNCHANGED <<txs, wallet, pool, queue, locked, nextKey>>]_vars

\* C23: when the queue write of name_autoregister fails after the
\* name_firstupdate was signed, no coin stays locked for that transaction,
\* which is not in the queue.
C23_NoLockWithoutQueueEntry ==
  (last.rpc = "name_autoregister" /\ last.err = ErrQueue)
    => last.prev \notin locked

(***************************************************************************)
(* The locks.                                                              *)
(***************************************************************************)
LedgerLocks == {"cs_main", "mempool.cs"}

\* The step takes the lock for the thread.
Acquires(t, lock) == calls'[t].held = Append(calls[t].held, lock)

\* C24 as stated: no handler takes cs_main or mempool.cs while it holds
\* cs_wallet: whenever one handler holds both, the ledger or pool lock was
\* taken first.
C24_LedgerLockFirst ==
  [][\A t \in Threads, lock \in LedgerLocks :
       Acquires(t, lock) => ~Holds(calls[t], "cs_wallet")]_vars

\* C24 amended: no handler takes cs_wallet while it holds cs_main or
\* mempool.cs: whenever one handler holds cs_wallet and cs_main, cs_wallet was
\* taken first, and mempool.cs is never held together with cs_wallet.
C24_WalletLockFirst ==
  /\ [][\A t \in Threads, lock \in LedgerLocks :
          Acquires(t, "cs_wallet") => ~Holds(calls[t], lock)]_vars
  /\ [](\A t \in Threads :
          ~(Holds(calls[t], "cs_wallet") /\ Holds(calls[t], "mempool.cs")))

\* The wallet scan of name_firstupdate holds cs_wallet and cs_main.
C24_Witness ==
  \E t \in Threads :
    /\ calls[t].rpc = "name_firstupdate"
    /\ calls[t].held = <<"cs_wallet", "cs_main">>

\* C25: a handler holds cs_wallet from its first check to its last mutation,
\* so that no other operation on the wallet runs between two steps of it:
\* while a name_update is between its chain-length check and its send, no
\* other thread adds a transaction to the wallet.
C25_NoWalletOperationInBetween ==
  [][\A t \in Threads :
       (calls[t] # Idle /\ calls'[t] = calls[t])
         => UNCHANGED <<txs, wallet>>]_vars

NameOps == {"name_new", "name_firstupdate", "name_update", "name_autoregister"}

\* The step is the thread's read of the ledger in a name lookup.
ReadsLedger(t) ==
  /\ calls[t] # NoHandler
  /\ calls'[t] # calls[t]
  /\ Program(calls[t].rpc, calls[t].o)[calls[t].pc].op = "exists"

\* C26: in name_new, name_firstupdate, name_update and name_autoregister the
\* wait of BlockUntilSyncedToCurrentChain comes before the handler takes any
\* lock and before its name lookup reads the ledger, on every path.
C26_SyncBeforeLocksAndLookup ==
  [][\A t \in Threads :
       (/\ calls[t].rpc \in NameOps
        /\ \/ ReadsLedger(t)
           \/ \E lock \in LedgerLocks \cup {"cs_wallet"} : Acquires(t, lock))
         => calls[t].synced]_vars

\* C27: every secret is 20 bytes long: the rand that name_new and
\* name_autoregister return is, and name_firstupdate succeeds with a rand
\* given to it only if the rand is 20 bytes long (the rand it derives itself
\* is).
C27_SecretIs20Bytes ==
  last.rpc \in {"name_new", "name_autoregister", "name_firstupdate"}
    => RandSize(last.rand) = 20

(***************************************************************************)
(* Destinations.                                                           *)
(***************************************************************************)
\* The transactions the step builds whose destination is a key of the wallet
\* and which the step has sent or, for the name_firstupdate of
\* name_autoregister, written to the queue.
SentToReservedKey ==
  {id \in (DOMAIN txs') \ (DOMAIN txs) :
     /\ Owned(txs'[id].dest)
     /\ txs'[id].seq = TWELVE_PLUS_ONE => id \in DOMAIN queue'}

\* C28: name_new, name_firstupdate and name_update called without a
\* destination override throw the keypool error when no destination can be
\* reserved, and build nothing; a reserved destination is kept only when the
\* send (for the name_firstupdate of name_autoregister the queue write) has
\* succeeded, and is free again otherwise; with an override no destination is
\* reserved.
C28_DestinationReservation ==
  /\ [](\A name \in Names :
          /\ NewResult(name, TRUE, NoDestArg, "keypool").err = ErrKeypool
          /\ ~ENABLED (\E nOut \in 0..1 :
                         name_new(name, TRUE, NoDestArg, "keypool", nOut))
          /\ \A setting \in LimitSettings, valArg \in ValidValueArgs :
               UpdateResult(name, valArg, "ext", setting, "ok").err = "ok"
                 => /\ UpdateResult(name, valArg, NoDestArg, setting,
                                    "keypool").err = ErrKeypool
                    /\ ~ENABLED (\E nOut \in 0..1 :
                                   name_update(name, valArg, NoDestArg,
                                               setting, "keypool", nOut))
          /\ \A randArg \in ValidRandArgs, txArg \in TxidArgs,
                allow_active \in BOOLEAN :
               \A prevTxid \in ScanPrevTxid(name, randArg, txArg) :
                 FirstupdateResult(name, randArg, txArg, NullArg, allow_active,
                                   "ext", prevTxid, "ok").err = "ok"
                   => /\ FirstupdateResult(name, randArg, txArg, NullArg,
                                           allow_active, NoDestArg, prevTxid,
                                           "keypool").err = ErrKeypool
                      /\ ~ENABLED (\E nOut \in 0..1 :
                                     name_firstupdate(name, randArg, txArg,
                                                      NullArg, allow_active,
                                                      NoDestArg, prevTxid,
                                                      "keypool", nOut)))
  /\ [][/\ nextKey' = nextKey + Cardinality(SentToReservedKey)
        /\ \A id \in SentToReservedKey :
             nextKey <= txs'[id].dest.k /\ txs'[id].dest.k < nextKey'
        /\ \A id \in (DOMAIN txs') \ (DOMAIN txs) :
             Owned(txs'[id].dest) => txs'[id].dest.k >= nextKey]_vars

\* The queue write of name_autoregister failed: the key reserved for the
\* name_firstupdate is the next one to be handed out, the one of the name_new
\* is kept.
C28_Witness ==
  /\ last.rpc = "name_autoregister"
  /\ last.err = ErrQueue
  /\ txs[last.tx].dest = KeyDest(nextKey - 1)
  /\ txs[last.tx + 1].dest = KeyDest(nextKey)

ExtOf(hex) ==
  IF hex.txid \in DOMAIN txs THEN {txs[hex.txid]} ELSE ExternalTxs

\* C30: queuerawtransaction does one of three things and never both
\* broadcasts and queues: a transaction valid for the pool right now is
\* broadcast and not added to the queue; one rejected as consensus-invalid
\* gives an error and the queue stays as it is; any other one is added to the
\* queue (by a wallet whose queue write succeeds).  Hex that does not decode
\* gives "TX decode failed" and the queue stays as it is.
C30_QueueRawThreeWays ==
  /\ [](\A hex \in HexArgs, accept \in AcceptResults, env \in {"ok", "queue"} :
          \A ext \in ExtOf(hex) :
            /\ ~DecodeHexTx(hex)
                 => /\ QueueRawResult(hex, accept, env) = "TX decode failed"
                    /\ ~ENABLED queuerawtransaction(hex, ext, accept, env)
            /\ (DecodeHexTx(hex) /\ accept = "consensus")
                 => /\ QueueRawResult(hex, accept, env) = "Invalid transaction"
                    /\ ~ENABLED queuerawtransaction(hex, ext, accept, env)
            /\ (/\ DecodeHexTx(hex)
                /\ accept # "consensus"
                /\ env = "ok"
                /\ AcceptPossible(hex, ext, accept)
                /\ hex.txid \in DOMAIN txs \/ CanBuild(1))
                 => /\ QueueRawResult(hex, accept, env) = "ok"
                    /\ ENABLED queuerawtransaction(hex, ext, accept, env))
  /\ [][\A hex \in HexArgs, accept \in AcceptResults :
          \A ext \in ExtOf(hex) :
            queuerawtransaction(hex, ext, accept, "ok")
              => /\ accept = "valid"
                      => /\ pool' = Append(pool, hex.txid)
                         /\ queue' = queue
                 /\ accept = "later"
                      => /\ pool' = pool
                         /\ hex.txid \in DOMAIN queue'
                         /\ queue'[hex.txid] = hex
                         /\ \A id \in DOMAIN queue \ {hex.txid} :
                              id \in DOMAIN queue' /\ queue'[id] = queue[id]
                 /\ accept # "consensus"]_vars

\* One transaction was queued, and the last call has broadcast another one
\* without queueing it.
C30_Witness ==
  /\ last.rpc = "queuerawtransaction"
  /\ InPool(last.tx)
  /\ last.tx \notin DOMAIN queue
  /\ \E id \in DOMAIN queue : ~InPool(id) /\ id \notin wallet

(***************************************************************************)
(* The wallet scan of name_firstupdate as a loop (lines 876-918).  The     *)
(* order of mapWallet is the order of its keys, the txid hashes, which the *)
(* transaction numbers used here say nothing about: every order of the     *)
(* wallet's transactions is one the loop may meet.                         *)
(***************************************************************************)
MapWalletOrders ==
  {o \in [1..Cardinality(wallet) -> wallet] :
     \A i, j \in 1..Cardinality(wallet) : i # j => o[i] # o[j]}

\* The three `continue`s of the loop body: no name_new output in the
\* transaction, no key to derive the rand from, the hash does not match.
ScanSkips(id, name, fixedRand, randArg) ==
  \/ txs[id].op # "name_new"
  \/ ~fixedRand /\ ~getNameSaltOk(txs[id].dest)
  \/ ~saltMatchesHash(name,
                      IF fixedRand THEN randArg
                                   ELSE getNameSalt(name, txs[id].dest),
                      getOpHash(id))

RECURSIVE ScanLoop_NoBreak(_, _, _, _, _)
RECURSIVE ScanLoop(_, _, _, _, _)

\* A loop that goes on after a match and ends with the last one.
ScanLoop_NoBreak(order, i, name, fixedRand, randArg) ==
  IF i > Len(order) THEN ZeroTxid
  ELSE IF ScanLoop_NoBreak(order, i + 1, name, fixedRand, randArg) # ZeroTxid
    THEN ScanLoop_NoBreak(order, i + 1, name, fixedRand, randArg)
  ELSE IF ScanSkips(order[i], name, fixedRand, randArg) THEN ZeroTxid
  ELSE order[i]

\* prevTxid after the loop from position i on: zero when every transaction
\* is skipped, else the first one that is not (the `break` at line 917).
ScanLoop(order, i, name, fixedRand, randArg) ==
  IF i > Len(order) THEN ZeroTxid
  ELSE IF ScanSkips(order[i], name, fixedRand, randArg)
    THEN ScanLoop(order, i + 1, name, fixedRand, randArg)
  ELSE order[i]

\* The transaction is a name_new of the wallet whose hash is the one of the
\* name and the secret: the given one, or the one derived from the key the
\* name_new pays to, when the wallet has that key.
CommitVerifies(id, name, randArg) ==
  /\ txs[id].op = "name_new"
  /\ IF randArg # NoRand
       THEN txs[id].hash = Hash160(randArg, name)
       ELSE /\ Owned(txs[id].dest)
            /\ txs[id].hash = Hash160(DerivedRand(txs[id].dest.k, name), name)

\* C31: name_firstupdate without a txid takes as previous transaction the
\* first transaction of the wallet, in the order the wallet is gone through,
\* that has a name_new output whose hash matches the secret (the given one
\* or the one derived from the output's key); transactions without a
\* name_new output, with no key to derive from or with another hash are
\* skipped; when none matches the call throws "scan for previous txid
\* failed" and sends nothing.
C31_ScanFindsFirstMatch ==
  /\ [](\A name \in Names, randArg \in ValidRandArgs :
          /\ \A order \in MapWalletOrders :
               LET found == ScanLoop(order, 1, name, randArg # NoRand, randArg)
               IN
               /\ found \in ScanPrevTxid(name, randArg, NullTx)
               /\ found = ZeroTxid
                    <=> \A id \in wallet : ~CommitVerifies(id, name, randArg)
               /\ found # ZeroTxid
                    => \E i \in 1..Len(order) :
                         /\ order[i] = found
                         /\ CommitVerifies(found, name, randArg)
                         /\ \A j \in 1..(i - 1) :
                              ~CommitVerifies(order[j], name, randArg)
          /\ \A prevTxid \in ScanPrevTxid(name, randArg, NullTx) :
               \E order \in MapWalletOrders :
                 ScanLoop(order, 1, name, randArg # NoRand, randArg) = prevTxid
          /\ (\A id \in wallet : ~CommitVerifies(id, name, randArg))
               => \A allow_active \in BOOLEAN :
                    FirstupdateEarlyErr(name, randArg, NullArg, allow_active)
                        = "ok"
                      => /\ \A valArg \in ValidValueArgs, destArg \in DestArgs,
                               env \in WalletEnv :
                              FirstupdateResult(name, randArg, NullTx, valArg,
                                                allow_active, destArg,
                                                ZeroTxid, env).err
                                = "scan for previous txid failed"
                         /\ ~ENABLED (\E prevTxid \in TxidArgs :
                                        FirstupdateSteps(name, randArg, NullTx,
                                                         allow_active,
                                                         prevTxid)))
  /\ [][\A name \in Names :
          last'.rpc = "name_firstupdate" /\ last'.name = name
            => \A randArg \in ValidRandArgs, valArg \in ValidValueArgs,
                  allow_active \in BOOLEAN, destArg \in DestArgs,
                  prevTxid \in DOMAIN txs, nOut \in 0..1 :
                 name_firstupdate(name, randArg, NullTx, valArg, allow_active,
                                  destArg, prevTxid, "ok", nOut)
                   => /\ prevTxid \in wallet
                      /\ CommitVerifies(prevTxid, name, randArg)
                      /\ last'.prev[1] = prevTxid
                      /\ \E order \in MapWalletOrders :
                           ScanLoop(order, 1, name, randArg # NoRand, randArg)
                             = prevTxid]_vars

\* A name_firstupdate has spent a name_new found among wallet transactions
\* that the scan skips: a name_update, and a name_new for another secret.
C31_Witness ==
  /\ last.rpc = "name_firstupdate"
  /\ last.err = "ok"
  /\ last.prev[1] \in wallet
  /\ CommitVerifies(last.prev[1], last.name, NoRand)
  /\ \E id \in wallet : txs[id].op = "name_update"
  /\ \E id \in wallet :
       /\ txs[id].op = "name_new"
       /\ ~CommitVerifies(id, last.name, NoRand)
       /\ ~CommitVerifies(id, last.name, last.rand)

(***************************************************************************)
(* The delegation block under fair random draws.  The thread that runs the *)
(* handler goes on running, and GetRandBytes is uniform: a value that can  *)
(* be drawn at every turn of a loop is drawn in the end.  The names are    *)
(* such that the do-while loop has no, one or many admissible candidates   *)
(* with a digit, and the ledger may hold every fallback name there is.     *)
(***************************************************************************)
PlanParents == {DName("d", l, << >>, << >>) : l \in {"/example", "/L252", "/L253"}}

PlanLedgerNames ==
  { DName("dd", "/example", << >>, << >>),
    DName("dd", "/L252", << >>, << >>),
    DName("dd", "/L252", <<1>>, << >>),
    DName("dd", "/L253", << >>, << >>) }
    \cup {DName("dd", "/", << >>, rand) : rand \in RandBytes4}

InitPlan ==
  /\ txs = << >>
  /\ wallet = {}
  /\ pool = << >>
  /\ coins = {}
  /\ \E S \in SUBSET PlanLedgerNames :
       nameDB = [n \in S |-> [present |-> TRUE, value |-> "v1",
                               outp |-> NoOutp, expired |-> FALSE]]
  /\ queue = NoQueue
  /\ locked = {}
  /\ nextKey = 0
  /\ chain = {}
  /\ last = NoCall
  /\ calls = <<AIdle>>

NextPlan ==
  \/ \E name \in PlanParents, delegate \in BOOLEAN :
       AutoregisterBegin(name, NullArg, TRUE, delegate, NoDestArg)
  \/ \E digit \in Digits : PlanCandidate(digit)
  \/ \E rand \in RandBytes4 : PlanFallback(rand)
  \/ \E env \in {"ok", "locked"} : IssueNn(env, 0)
  \/ \E env2 \in {"ok", "queue"} : QueueNfu(env2, 0)

SpecPlan ==
  /\ InitPlan
  /\ [][NextPlan]_vars
  /\ WF_vars(\E digit \in Digits : PlanCandidate(digit))
  /\ \A rand \in RandBytes4 : WF_vars(PlanFallback(rand))

\* The handler is in one of the two loops of the delegation block.
Planning == calls[1].pc \in {"plan", "fallback"}

\* The prefix of the delegated name.
PlanPrefix == IF calls[1].name.prefix = "d" THEN "dd" ELSE "idd"

\* A name of the fallback form, the prefix and "/" and eight hex digits, is
\* unused.
FallbackNameFree ==
  \E rand \in RandBytes4 : ~existsName(DName(PlanPrefix, "/", << >>, rand))

\* A name the planner may try, of a size within the limit, is unused: the
\* bare delegated name, one with digits, or a fallback name.  The ledgers
\* here hold no name with two digits, so an unused name with digits exists
\* just when one with a single digit does.
CandidateNameFree ==
  \/ FallbackNameFree
  \/ \E suffix \in {<< >>} \cup {<<d>> : d \in Digits} :
       /\ DNameSize(CandidateName(PlanPrefix, calls[1].name.label, suffix))
            <= MAX_NAME_LENGTH
       /\ ~existsName(CandidateName(PlanPrefix, calls[1].name.label, suffix))

\* The do-while loop ends, and after at most as many turns as it takes the
\* candidate to outgrow MAX_NAME_LENGTH: a turn is repeated only when the
\* candidate was within the limit, and the next one is a byte longer.
DigitLoopBounded ==
  /\ [](calls[1].pc = "plan"
          => DNameSize(CandidateName(PlanPrefix, calls[1].name.label,
                                     calls[1].suffix))
               <= MAX_NAME_LENGTH + 1)
  /\ [][calls[1].pc = "plan" /\ calls'[1].pc = "plan"
          => Len(calls'[1].suffix) = Len(calls[1].suffix) + 1]_vars
  /\ (calls[1].pc = "plan") ~> (calls[1].pc # "plan")

\* C32 as stated: while some candidate name of admissible size is unused,
\* the two loops end; the do-while loop ends after a bounded number of turns.
C32_PlannerTerminates ==
  /\ DigitLoopBounded
  /\ (Planning /\ CandidateNameFree) ~> ~Planning

\* C32: while some name of the fallback form is unused, the two loops end
\* under fair random draws; the do-while loop always ends, after a bounded
\* number of turns, each of which makes the candidate one byte longer.
C32_PlannerTerminatesWithFreeFallback ==
  /\ DigitLoopBounded
  /\ (Planning /\ FallbackNameFree) ~> ~Planning

\* The fallback loop has drawn a name that exists and has gone on.
C32_Witness ==
  /\ calls[1].pc = "fallback"
  /\ calls[1].delegatedName.hex # << >>
  /\ calls[1].lastCheck.made
  /\ calls[1].lastCheck.name.hex # << >>
  /\ calls[1].lastCheck.exists
  /\ FallbackNameFree

(***************************************************************************)
(* The result of name_autoregister: the array res, to which issue_nn adds  *)
(* the txid and the rand in hex when it is called with push set.           *)
(***************************************************************************)
\* HexStr (rand): the text of the bytes.
HexStr(rand) == [hex |-> rand]

\* The push argument of the two issue_nn calls (lines 621 and 623); the
\* variant passes true in both.
PushArg_Always(first) == TRUE
PushArg(first) == first

\* What one issue_nn call adds to res (lines 538-541).
ResPushed(push, info) ==
  IF push /\ info.txid # ZeroTxid THEN <<info.txid, HexStr(info.rand)>> ELSE << >>

\* res when the handler returns it (line 631).
AutoregisterRes(f) ==
  ResPushed(PushArg(TRUE), f.info) \o ResPushed(PushArg(FALSE), f.info2)

\* C33: name_autoregister returns one txid and one secret, those of the
\* name_new of the name it was called with, whether it delegates or not; a
\* delegating call returns neither the txid nor the secret of the name_new of
\* the delegated name, and the txid of no queued name_firstupdate is in the
\* result.
C33_ResultIsParentCommit ==
  LET f == calls[1]
      res == AutoregisterRes(f)
  IN  f.pc = "done" =>
        /\ Len(res) = 2
        /\ res[1] \in DOMAIN txs
        /\ txs[res[1]].op = "name_new"
        /\ res[2] = HexStr(txs[res[1]].hash.r)
        /\ txs[res[1]].hash = Hash160(txs[res[1]].hash.r, f.name)
        /\ res[1] \in wallet
        /\ res[1] \notin DOMAIN queue
        /\ \A id \in DOMAIN queue : \A i \in {1} : res[i] # id
        /\ f.isDelegated
             => /\ f.info2.txid # ZeroTxid
                /\ txs[f.info2.txid].hash
                     = Hash160(f.info2.rand, f.delegatedName)
                /\ res[1] # f.info2.txid
                /\ res[2] # HexStr(f.info2.rand)

\* A delegating call has returned, with two name_new sent and two
\* name_firstupdate queued.
C33_Witness ==
  LET f == calls[1]
  IN  /\ f.pc = "done"
      /\ f.isDelegated
      /\ f.info2.txid # ZeroTxid
      /\ f.info2.txid # f.info.txid
      /\ Cardinality(DOMAIN queue) = 2
      /\ AutoregisterRes(f) = <<f.info.txid, HexStr(f.info.rand)>>

(***************************************************************************)
(* The order of the locks.                                                 *)
(***************************************************************************)
Mutexes == {"cs_wallet", "cs_main", "mempool.cs"}

\* The locks a handler holds when it comes to instruction pc of its program.
RECURSIVE HeldBefore(_, _)
HeldBefore(prog, pc) ==
  IF pc = 1 THEN << >>
  ELSE LET ins == prog[pc - 1]
           held == HeldBefore(prog, pc - 1)
       IN  CASE ins.op = "acq" -> Append(held, ins.lock)
             [] ins.op = "rel" -> Release(held, ins.lock)
             [] OTHER -> held

\* The pairs <<a, b>> of mutexes such that the handler, on this path, takes
\* b while it holds a.
NestedPairs(rpc, o) ==
  {p \in Mutexes \X Mutexes :
     /\ p[1] # p[2]
     /\ \E pc \in 1..Len(Program(rpc, o)) :
          /\ Program(rpc, o)[pc].op = "acq"
          /\ Program(rpc, o)[pc].lock = p[2]
          /\ \E i \in 1..Len(HeldBefore(Program(rpc, o), pc)) :
               HeldBefore(Program(rpc, o), pc)[i] = p[1]}

\* Some handler is running and no running handler can take its next step.
Deadlocked ==
  /\ \E t \in Threads : calls[t] # NoHandler
  /\ \A t \in Threads : ~ENABLED HandlerStep(t)

\* C34: the handlers of the file cannot deadlock with one another: no two of
\* them, on any of their paths, take two of cs_wallet, cs_main and
\* mempool.cs nested in opposite orders, every lock a running handler takes
\* while it holds another is such a nested pair of its program, and in no
\* interleaving is every running handler waiting for a lock.
C34_NoLockOrderInversion ==
  /\ [](calls = [t \in Threads |-> NoHandler]
          => \A rpc1 \in Rpcs, rpc2 \in Rpcs :
               \A o1 \in Paths(rpc1), o2 \in Paths(rpc2) :
                 \A p \in NestedPairs(rpc1, o1) :
                   <<p[2], p[1]>> \notin NestedPairs(rpc2, o2))
  /\ [][\A t \in Threads, a \in Mutexes, b \in Mutexes :
          (a # b /\ Acquires(t, b) /\ Holds(calls[t], a))
            => <<a, b>> \in NestedPairs(calls[t].rpc, calls[t].o)]_vars
  /\ []~Deadlocked

\* One handler holds cs_wallet and cs_main, taken in that order, and the
\* other one waits for cs_main.
C34_Witness ==
  \E t \in Threads, u \in Threads :
    /\ t # u
    /\ calls[t].held = <<"cs_wallet", "cs_main">>
    /\ calls[u] # NoHandler
    /\ Program(calls[u].rpc, calls[u].o)[calls[u].pc]
         = Ins("acq", "cs_main", 1135)
    /\ ~ENABLED HandlerStep(u)
====
